---- MODULE Spec2Model ----
(***************************************************************************)
(* flux-security: the sign envelope engine (src/lib/sign.c) and the        *)
(* privilege-separated exec pipeline of the IMP (src/imp/exec/exec.c).     *)
(*                                                                         *)
(* Strings that cross the envelope are sequences of byte values (ASCII);   *)
(* names used at the API (mechanism names, configuration strings, error    *)
(* texts) are TLA+ strings, converted with StrBytes where the code puts    *)
(* them into a header.                                                     *)
(***************************************************************************)
EXTENDS Integers, Sequences, FiniteSets, TLC

VARIABLES
    cfg,        \* the [sign] configuration table of the security context
    uid,        \* getuid() of the process that owns the context
    down,       \* mechanisms whose back-end is unavailable (init hook fails)
    ctx,        \* flux_security_t: attached sign engine, buffers, last_error
    env,        \* the envelope string the caller holds, and where it came from
    res,        \* what the most recent library call returned
    xcfg,       \* the [exec] configuration table
    req,        \* the flux-imp exec invocation
    pc,         \* position of each process of the exec pipeline
    chan,       \* the privsep channel
    obs,        \* what the pipeline has done so far
    prev        \* what an earlier invocation with the same J did

signvars == <<cfg, uid, down, ctx, env, res>>

execvars == <<xcfg, req, pc, chan, obs, prev>>

vars == <<cfg, uid, down, ctx, env, res, xcfg, req, pc, chan, obs, prev>>

(***************************************************************************)
(* Bounds of the model.                                                    *)
(***************************************************************************)
MaxFlipBit == 6

\* the userids envelopes are made for; the process itself runs as uid 1
Uids == {0, 1}

(***************************************************************************)
(* Small helpers on byte strings.                                          *)
(***************************************************************************)
strchr(s, c) ==
    IF \A i \in 1..Len(s) : s[i] # c THEN 0
    ELSE CHOOSE i \in 1..Len(s) : s[i] = c /\ \A j \in 1..(i - 1) : s[j] # c

StrBytes(s) ==
    CASE s = "version"      -> <<118, 101, 114, 115, 105, 111, 110>>
      [] s = "mechanism"    -> <<109, 101, 99, 104, 97, 110, 105, 115, 109>>
      [] s = "userid"       -> <<117, 115, 101, 114, 105, 100>>
      [] s = "curve.pubkey" -> <<99, 117, 114, 118, 101, 46, 112, 117, 98, 107, 101, 121>>
      [] s = "none"         -> <<110, 111, 110, 101>>
      [] s = "munge"        -> <<109, 117, 110, 103, 101>>
      [] s = "curve"        -> <<99, 117, 114, 118, 101>>
      [] s = "bogus"        -> <<98, 111, 103, 117, 115>>
      [] OTHER              -> <<63>>

RECURSIVE IntBytes(_)
IntBytes(n) ==
    IF n < 10 THEN <<48 + n>> ELSE IntBytes(n \div 10) \o <<48 + (n % 10)>>

\* the decimal text of an int, as printf ("%d") writes it
DecText(n) ==
    IF n >= 0 THEN IntBytes(n)
    ELSE IF n = -2147483647 - 1 THEN <<45>> \o IntBytes(214748364) \o <<56>>
    ELSE <<45>> \o IntBytes(0 - n)

IsDigits(b) == b # <<>> /\ \A i \in 1..Len(b) : b[i] \in 48..57

(***************************************************************************)
(* base64, original variant with padding, as libsodium computes it.        *)
(***************************************************************************)
b64_byte_to_char(x) ==
    IF x < 26 THEN x + 65
    ELSE IF x < 52 THEN x - 26 + 97
    ELSE IF x < 62 THEN x - 52 + 48
    ELSE IF x = 62 THEN 43 ELSE 47

b64_char_to_byte(c) ==
    IF c >= 65 /\ c <= 90 THEN c - 65
    ELSE IF c >= 97 /\ c <= 122 THEN c - 97 + 26
    ELSE IF c >= 48 /\ c <= 57 THEN c - 48 + 52
    ELSE IF c = 43 THEN 62
    ELSE IF c = 47 THEN 63 ELSE 255

\* byte i of bin, 0 past its end
b64_at(bin, i) == IF i <= Len(bin) THEN bin[i] ELSE 0

\* character w (0..3) of group g: three bytes give four characters, '=' pads
b64_group_char(bin, g, w) ==
    CASE w = 0 -> b64_byte_to_char(b64_at(bin, 3 * g + 1) \div 4)
      [] w = 1 -> b64_byte_to_char((b64_at(bin, 3 * g + 1) % 4) * 16
                                   + b64_at(bin, 3 * g + 2) \div 16)
      [] w = 2 -> IF 3 * g + 2 > Len(bin) THEN 61
                  ELSE b64_byte_to_char((b64_at(bin, 3 * g + 2) % 16) * 4
                                        + b64_at(bin, 3 * g + 3) \div 64)
      [] w = 3 -> IF 3 * g + 3 > Len(bin) THEN 61
                  ELSE b64_byte_to_char(b64_at(bin, 3 * g + 3) % 64)

sodium_bin2base64(bin) ==
    SubSeq([k \in 1..(4 * ((Len(bin) + 2) \div 3)) |->
                b64_group_char(bin, (k - 1) \div 4, (k - 1) % 4)],
           1, 4 * ((Len(bin) + 2) \div 3))

\* where the decoding loop stops: the first character outside the alphabet
b64_stop(b64) ==
    IF \A i \in 1..Len(b64) : b64_char_to_byte(b64[i]) # 255 THEN Len(b64) + 1
    ELSE CHOOSE i \in 1..Len(b64) :
             /\ b64_char_to_byte(b64[i]) = 255
             /\ \A j \in 1..(i - 1) : b64_char_to_byte(b64[j]) # 255

\* byte j of the output: the eight bits from bit 8 (j - 1) of the 6-bit stream
b64_out_byte(b64, j) ==
    ((b64_char_to_byte(b64[(8 * (j - 1)) \div 6 + 1]) * 64
      + b64_char_to_byte(b64[(8 * (j - 1)) \div 6 + 2]))
     \div (2 ^ (4 - ((8 * (j - 1)) % 6)))) % 256

\* the loop consumes the characters before pos, emitting a byte whenever eight
\* bits are pending; acc_len bits, of value acc, are left pending at the end
b64_scan_to(b64, pos) ==
    [pos |-> pos, acc_len |-> (6 * (pos - 1)) % 8,
     acc |-> IF pos = 1 THEN 0
             ELSE b64_char_to_byte(b64[pos - 1]) % (2 ^ ((6 * (pos - 1)) % 8)),
     bin |-> SubSeq([j \in 1..((6 * (pos - 1)) \div 8) |-> b64_out_byte(b64, j)],
                    1, (6 * (pos - 1)) \div 8)]

b64_scan(b64) == b64_scan_to(b64, b64_stop(b64))

\* after the loop s: no pending bits of value, the padding the pending bits
\* call for, and nothing after it
b64_finish(b64, s) ==
    IF \/ s.acc_len > 4 \/ s.acc # 0
       \/ ~(/\ s.pos + s.acc_len \div 2 - 1 <= Len(b64)
            /\ \A k \in 0..(s.acc_len \div 2 - 1) : b64[s.pos + k] = 61)
       \/ ~(s.pos + s.acc_len \div 2 = Len(b64) + 1)
    THEN [rc |-> -1, bin |-> s.bin]
    ELSE [rc |-> 0, bin |-> s.bin]

\* rc = 0 and the decoded bytes, or rc = -1; bin is what was written to the
\* destination buffer either way
sodium_base642bin(b64) == b64_finish(b64, b64_scan(b64))

(***************************************************************************)
(* The key/value bundle (src/libutil/kv.c): entries "key NUL T value NUL", *)
(* T a one-character type ('s' string, 'i' int64, ...).  A decoded bundle  *)
(* is the sequence of its entries.                                         *)
(***************************************************************************)
KvTypes == {115, 105, 100, 98, 116}

kv_create == <<>>

kv_put(kv, key, type, val) ==
    Append(SelectSeq(kv, LAMBDA e : e.key # StrBytes(key)),
           [key |-> StrBytes(key), type |-> type, val |-> val])

RECURSIVE kv_encode(_)
kv_encode(kv) ==
    IF kv = <<>> THEN <<>>
    ELSE Head(kv).key \o <<0>> \o <<Head(kv).type>> \o Head(kv).val \o <<0>>
         \o kv_encode(Tail(kv))

\* the NUL-terminated fields of a buffer whose last byte is NUL
RECURSIVE kv_fields(_)
kv_fields_from(buf, z) ==
    <<SubSeq(buf, 1, z - 1)>> \o kv_fields(SubSeq(buf, z + 1, Len(buf)))

kv_fields(buf) ==
    IF buf = <<>> THEN <<>> ELSE kv_fields_from(buf, strchr(buf, 0))

\* the entries of the fields f: key, then type character and value
kv_entries(f) ==
    IF /\ Len(f) % 2 = 0
       /\ \A i \in 1..(Len(f) \div 2) :
              /\ f[2 * i - 1] # <<>>
              /\ f[2 * i] # <<>>
              /\ f[2 * i][1] \in KvTypes
    THEN [ok |-> TRUE,
          kv |-> SubSeq([i \in 1..(Len(f) \div 2) |->
                           [key |-> f[2 * i - 1], type |-> f[2 * i][1],
                            val |-> Tail(f[2 * i])]], 1, Len(f) \div 2)]
    ELSE [ok |-> FALSE, kv |-> <<>>]

kv_decode(buf) ==
    IF buf = <<>> THEN [ok |-> TRUE, kv |-> <<>>]
    ELSE IF buf[Len(buf)] # 0 THEN [ok |-> FALSE, kv |-> <<>>]
    ELSE kv_entries(kv_fields(buf))

\* An int64_t is held as four 16-bit limbs, least significant first, in
\* two's complement.  A magnitude being parsed may carry 65536 in its top
\* limb, which says it no longer fits in 64 bits.
int64_mul10_add(l, d) ==
    LET a0 == l[1] * 10 + d
        a1 == l[2] * 10 + a0 \div 65536
        a2 == l[3] * 10 + a1 \div 65536
        a3 == l[4] * 10 + a2 \div 65536
    IN  <<a0 % 65536, a1 % 65536, a2 % 65536, IF a3 > 65535 THEN 65536 ELSE a3>>

RECURSIVE int64_digits(_)
int64_digits(b) ==
    IF b = <<>> THEN <<0, 0, 0, 0>>
    ELSE int64_mul10_add(int64_digits(SubSeq(b, 1, Len(b) - 1)), b[Len(b)] - 48)

RECURSIVE int64_negate(_)
int64_negate(l) ==
    IF l = <<>> THEN <<>>
    ELSE IF Head(l) = 0 THEN <<0>> \o int64_negate(Tail(l))
    ELSE <<65536 - Head(l)>> \o [i \in 1..(Len(l) - 1) |-> 65535 - l[i + 1]]

\* two limbs read as a signed 32-bit number
signed32(lo, hi) ==
    IF hi >= 32768 THEN (hi - 65536) * 65536 + lo ELSE hi * 65536 + lo

\* an int64_t as the model carries it: val is its low 32 bits read as an
\* int, hi its high 32 bits read as an int
int64_value(l) ==
    [ok |-> TRUE, val |-> signed32(l[1], l[2]), hi |-> signed32(l[3], l[4])]

\* the magnitude l with its sign, if it is in the range of int64_t
int64_parsed(l, neg) ==
    IF l[4] < 32768 THEN int64_value(IF neg THEN int64_negate(l) ELSE l)
    ELSE IF neg /\ l = <<0, 0, 0, 32768>> THEN int64_value(l)
    ELSE [ok |-> FALSE, val |-> 0, hi |-> 0]

\* v != n, for an int n
int64_ne(v, n) == v.val # n \/ v.hi # (IF n < 0 THEN -1 ELSE 0)

\* (int) v: the low 32 bits
int_cast(v) == v.val

\* the value of entry e read as the type asked for; an int64 value must
\* parse as a decimal number
kv_value(e, type) ==
    IF e.type # type THEN [ok |-> FALSE, val |-> 0, hi |-> 0]
    ELSE IF type # 105 THEN [ok |-> TRUE, val |-> e.val]
    ELSE IF IsDigits(e.val)
         THEN int64_parsed(int64_digits(e.val), FALSE)
    ELSE IF e.val # <<>> /\ e.val[1] = 45 /\ IsDigits(Tail(e.val))
         THEN int64_parsed(int64_digits(Tail(e.val)), TRUE)
    ELSE [ok |-> FALSE, val |-> 0, hi |-> 0]

\* kv_get: the first entry under key, of the type asked for
kv_get(kv, key, type) ==
    IF \A i \in 1..Len(kv) : kv[i].key # StrBytes(key)
    THEN [ok |-> FALSE, val |-> 0, hi |-> 0]
    ELSE kv_value(kv[CHOOSE i \in 1..Len(kv) :
                        /\ kv[i].key = StrBytes(key)
                        /\ \A j \in 1..(i - 1) : kv[j].key # StrBytes(key)],
                  type)

(***************************************************************************)
(* The mechanism registry (src/lib/sign_none.c, sign_munge.c,              *)
(* sign_curve.c).  The authentication daemon and the signature scheme are  *)
(* ideal: a munge credential carries the uid of the process that asked for *)
(* it and a digest of that uid and the protected bytes; a curve signature  *)
(* is a digest of the signed bytes keyed by the signer's key; the keystore *)
(* maps uid u to the public key "K<u>".                                    *)
(***************************************************************************)
Mechs == {"none", "munge", "curve"}

RECURSIVE WeightedSum(_, _)
WeightedSum(b, i) ==
    IF i = 0 THEN 0 ELSE WeightedSum(b, i - 1) + i * b[i]

Digest(b) == WeightedSum(b, Len(b)) % 4093

DigestChars(d) == << b64_byte_to_char(d \div 64), b64_byte_to_char(d % 64) >>

PubKey(u) == <<75, 48 + u>>

munge_encode(cred_uid, data) ==
    <<77, 48 + cred_uid>> \o DigestChars(Digest(<<48 + cred_uid>> \o data))

curve_sign(key_uid, data) == <<67>> \o DigestChars(Digest(PubKey(key_uid) \o data))

\* mech->init: munge and curve have one, and it fails when the back-end is down
has_init(mech) == mech # "none"

mech_init(mech, dn) == ~(mech \in dn)

has_prep(mech) == mech = "curve"

\* mech->prep: curve adds its public key to the header
mech_prep(mech, u, header) ==
    IF has_prep(mech) THEN kv_put(header, "curve.pubkey", 115, PubKey(u))
    ELSE header

\* mech->sign over the bytes HEADER.PAYLOAD
mech_sign(mech, u, data) ==
    CASE mech = "none"  -> StrBytes("none")
      [] mech = "munge" -> munge_encode(u, data)
      [] mech = "curve" -> curve_sign(u, data)

\* munge: the credential decodes, protects these bytes, and was issued to
\* the uid the header names
munge_verify(userid, data, signature) ==
    /\ Len(signature) = 4
    /\ signature[2] \in 48..57
    /\ signature = munge_encode(signature[2] - 48, data)
    /\ userid.ok
    /\ ~int64_ne(userid, signature[2] - 48)

\* curve: the signature is by the key in the header, and the keystore has
\* that key for the uid the header names
curve_verify(userid, pubkey, data, signature) ==
    /\ pubkey.ok
    /\ userid.ok
    /\ Len(pubkey.val) = 2
    /\ pubkey.val[2] \in 48..57
    /\ pubkey.val = PubKey(pubkey.val[2] - 48)
    /\ signature = curve_sign(pubkey.val[2] - 48, data)
    /\ userid.hi = 0
    /\ pubkey.val = PubKey(userid.val)

\* mech->verify: TRUE when the signature is accepted
mech_verify(mech, header, data, signature) ==
    CASE mech = "none"  -> signature = StrBytes("none")
      [] mech = "munge" ->
            munge_verify(kv_get(header, "userid", 105), data, signature)
      [] mech = "curve" ->
            curve_verify(kv_get(header, "userid", 105),
                         kv_get(header, "curve.pubkey", 115), data, signature)

(***************************************************************************)
(* Configuration objects (src/libutil/cf.c): a value carries its type.     *)
(***************************************************************************)
CfStr(s) == [type |-> "string", s |-> s, n |-> 0]
CfInt(n) == [type |-> "int64", s |-> "", n |-> n]
CfArr(a) == [type |-> "array", a |-> a]

cf_typeof(el) == el.type
cf_string(el) == el.s
cf_int64(el) == el.n

SignTable(ttl, dflt, allowed) ==
    [k \in {"max-ttl", "default-type", "allowed-types"} |->
        CASE k = "max-ttl"       -> CfInt(ttl)
          [] k = "default-type"  -> CfStr(dflt)
          [] k = "allowed-types" -> CfArr(allowed)]

\* sign_opts: the three keys, all required, no other key (CF_STRICT)
sign_opts ==
    [k \in {"max-ttl", "default-type", "allowed-types"} |->
        CASE k = "max-ttl"       -> "int64"
          [] k = "default-type"  -> "string"
          [] k = "allowed-types" -> "array"]

cf_check(conf) ==
    /\ DOMAIN conf = DOMAIN sign_opts
    /\ \A k \in DOMAIN conf : cf_typeof(conf[k]) = sign_opts[k]

\* the configurations a context is created with
SignConfigs ==
    { SignTable(30, "none", <<CfStr("none")>>),
      SignTable(30, "none", <<CfStr("curve")>>),
      SignTable(-100, "munge", <<CfStr("munge"), CfStr("curve")>>),
      SignTable(1, "curve", <<CfStr("curve")>>),
      SignTable(0, "none", <<CfStr("none")>>),
      SignTable(-1, "none", <<CfStr("none")>>),
      SignTable(-99, "none", <<CfStr("none")>>),
      SignTable(-101, "none", <<CfStr("none")>>),
      SignTable(30, "none", <<>>),
      SignTable(30, "none", <<CfStr("none"), CfInt(7)>>),
      SignTable(30, "none", <<CfStr("none"), CfStr("bogus")>>),
      SignTable(30, "bogus", <<CfStr("none")>>),
      [k \in {"default-type", "allowed-types"} |->
          SignTable(30, "none", <<CfStr("none")>>)[k]] }

(***************************************************************************)
(* The security context and the sign engine (src/lib/sign.c).              *)
(***************************************************************************)
sign_version == 1
FLUX_SIGN_NOVERIFY == 1

NoError == [msg |-> "", arg |-> ""]

\* fresh records whether security_error ran during the call in progress
NewContext ==
    [sign |-> FALSE, wrapbuf |-> <<>>, unwrapbuf |-> <<>>,
     last_error |-> NoError, errno |-> "0", fresh |-> FALSE]

\* security_error (ctx, fmt, ...): a NULL fmt stores strerror (errno)
security_error(c, msg, arg) ==
    [c EXCEPT !.fresh = TRUE,
              !.last_error =
        IF msg = "NULL" THEN [msg |-> "strerror", arg |-> c.errno]
        ELSE [msg |-> msg, arg |-> arg]]

set_errno(c, e) == [c EXCEPT !.errno = e]

\* a lookup that falls back to none for a name it does not know
lookup_mech_lenient(name) ==
    IF name = StrBytes("munge") THEN "munge"
    ELSE IF name = StrBytes("curve") THEN "curve"
    ELSE "none"

lookup_mech(name) ==
    IF name = StrBytes("none") THEN "none"
    ELSE IF name = StrBytes("munge") THEN "munge"
    ELSE IF name = StrBytes("curve") THEN "curve"
    ELSE "NULL"

\* validate_mech_array failing at entry i (from 1) of the array
mech_array_error(c, mechs, i) ==
    IF cf_typeof(mechs[i]) # "string"
    THEN [ok |-> FALSE,
          c |-> security_error(set_errno(c, "EINVAL"),
                    "sign: allowed-types[%d] not a string", i - 1)]
    ELSE [ok |-> FALSE,
          c |-> security_error(set_errno(c, "EINVAL"),
                    "sign: unknown mechanism=%s", cf_string(mechs[i]))]

mech_entry_ok(el) ==
    cf_typeof(el) = "string" /\ lookup_mech(StrBytes(cf_string(el))) # "NULL"

validate_mech_array(c, mechs) ==
    IF \E i \in 1..Len(mechs) : ~mech_entry_ok(mechs[i])
    THEN mech_array_error(c, mechs,
             CHOOSE i \in 1..Len(mechs) :
                 /\ ~mech_entry_ok(mechs[i])
                 /\ \A j \in 1..(i - 1) : mech_entry_ok(mechs[j]))
    ELSE IF Len(mechs) = 0
    THEN [ok |-> FALSE,
          c |-> security_error(set_errno(c, "EINVAL"),
                    "sign: allowed-types array is empty", "")]
    ELSE [ok |-> TRUE, c |-> c]

\* sign_create after validate_mech_array returned v
sign_create_validated(v, conf) ==
    IF ~v.ok THEN v
    ELSE IF lookup_mech(StrBytes(cf_string(conf["default-type"]))) = "NULL"
    THEN [ok |-> FALSE, c |-> v.c]
    ELSE [ok |-> TRUE, c |-> v.c]

\* sign_create without the max-ttl check
sign_create_any_ttl(c, conf) ==
    IF ~cf_check(conf)
    THEN [ok |-> FALSE,
          c |-> security_error(set_errno(c, "EINVAL"), "sign: config error: %s", "")]
    ELSE sign_create_validated(validate_mech_array(c, conf["allowed-types"].a), conf)

sign_create(c, conf) ==
    IF ~cf_check(conf)
    THEN [ok |-> FALSE,
          c |-> security_error(set_errno(c, "EINVAL"), "sign: config error: %s", "")]
    ELSE IF cf_int64(conf["max-ttl"]) <= 0 /\ cf_int64(conf["max-ttl"]) # -100
    THEN [ok |-> FALSE,
          c |-> security_error(set_errno(c, "EINVAL"),
                               "sign: max-ttl should be greater than zero", "")]
    ELSE sign_create_validated(validate_mech_array(c, conf["allowed-types"].a), conf)

\* a sign_init that keeps whatever sign_create left, validated or not
sign_attach_always(r) == [ok |-> r.ok, c |-> [r.c EXCEPT !.sign = TRUE]]

\* sign_init keeps the engine sign_create returned in the context
sign_attach(r) ==
    IF r.ok THEN [ok |-> TRUE, c |-> [r.c EXCEPT !.sign = TRUE]] ELSE r

\* sign_init: the engine is created on the first call and kept in the context
sign_init(c, conf) ==
    IF c.sign THEN [ok |-> TRUE, c |-> c] ELSE sign_attach(sign_create(c, conf))

\* header_encode_cpy: the wrap buffer becomes base64 (kv_encode (header))
header_encode_cpy(header) == sodium_bin2base64(kv_encode(header))

\* payload_encode_cat: "." and base64 of the payload bytes
payload_encode_cat(buf, pay) == buf \o <<46>> \o sodium_bin2base64(pay)

\* signature_cat: "." and the signature string
signature_cat(buf, sig) == buf \o <<46>> \o sig

\* make_header with the process's own uid written as the header userid
make_header_ruid(mech, ruid, userid) ==
    mech_prep(mech, ruid,
        kv_put(kv_put(kv_put(kv_create,
            "version", 105, IntBytes(sign_version)),
            "mechanism", 115, StrBytes(mech)),
            "userid", 105, IntBytes(ruid)))

\* the header flux_sign_wrap_as creates, and HEADER.PAYLOAD.SIGNATURE as it
\* leaves it in the wrap buffer
make_header(mech, ruid, userid) ==
    mech_prep(mech, ruid,
        kv_put(kv_put(kv_put(kv_create,
            "version", 105, IntBytes(sign_version)),
            "mechanism", 115, StrBytes(mech)),
            "userid", 105, IntBytes(userid)))

\* mech->sign over the wrap buffer b2 (HEADER.PAYLOAD), then signature_cat
sign_and_cat(mech, ruid, b2) == signature_cat(b2, mech_sign(mech, ruid, b2))

make_envelope(mech, ruid, userid, pay) ==
    sign_and_cat(mech, ruid,
        payload_encode_cat(header_encode_cpy(make_header(mech, ruid, userid)), pay))

\* make_envelope tabulated for the arguments the model uses (a table TLC
\* computes once)
EnvelopeKeys == Mechs \X {1} \X Uids \X {<<>>, <<104, 105>>}

EnvelopeTable ==
    {<<t, make_envelope(t[1], t[2], t[3], t[4])>> : t \in EnvelopeKeys}

serialize(mech, ruid, userid, pay) ==
    IF <<mech, ruid, userid, pay>> \in EnvelopeKeys
    THEN (CHOOSE e \in EnvelopeTable : e[1] = <<mech, ruid, userid, pay>>)[2]
    ELSE make_envelope(mech, ruid, userid, pay)

WrapFail(c, steps) == [c |-> c, rc |-> -1, mech |-> "", steps |-> steps]

\* flux_sign_wrap_as once the mechanism is looked up: mt is the name asked
\* for, mech the registered mechanism or "NULL"
wrap_with_mech(c, dn, ruid, userid, pay, paysz, mt, mech) ==
    IF mech = "NULL"
    THEN WrapFail(security_error(set_errno(c, "EINVAL"),
                                 "sign-wrap: unknown mechanism: %s", mt),
                  <<"args", "sign_init", "lookup_mech">>)
    ELSE IF has_init(mech) /\ ~mech_init(mech, dn)
    THEN WrapFail(security_error(set_errno(c, "ENOENT"),
                                 "sign-mech-init: %s", mech),
                  <<"args", "sign_init", "lookup_mech", "mech_init">>)
    ELSE [c |-> [c EXCEPT !.wrapbuf =
                    serialize(mech, ruid, userid, SubSeq(pay.bytes, 1, paysz))],
          rc |-> 0, mech |-> mech,
          steps |-> <<"args", "sign_init", "lookup_mech">>
                    \o (IF has_init(mech) THEN <<"mech_init">> ELSE <<>>)
                    \o (IF has_prep(mech) THEN <<"mech_prep">> ELSE <<>>)
                    \o <<"header_encode", "payload_encode", "mech_sign",
                         "signature_cat">>]

\* flux_sign_wrap_as with the mechanism name settled
wrap_named(c, dn, ruid, userid, pay, paysz, mt) ==
    wrap_with_mech(c, dn, ruid, userid, pay, paysz, mt, lookup_mech(StrBytes(mt)))

\* a wrap whose default is the first entry of allowed-types
wrap_initialized_first_allowed(i, conf, dn, ruid, userid, pay, paysz, mech_type) ==
    IF ~i.ok THEN WrapFail(i.c, <<"args", "sign_init">>)
    ELSE wrap_named(i.c, dn, ruid, userid, pay, paysz,
                    IF mech_type = "NULL" THEN cf_string(conf["allowed-types"].a[1])
                    ELSE mech_type)

\* flux_sign_wrap_as from the engine i that sign_init returned on
wrap_initialized(i, conf, dn, ruid, userid, pay, paysz, mech_type) ==
    IF ~i.ok THEN WrapFail(i.c, <<"args", "sign_init">>)
    ELSE wrap_named(i.c, dn, ruid, userid, pay, paysz,
                    IF mech_type = "NULL" THEN cf_string(conf["default-type"])
                    ELSE mech_type)

\* flux_sign_wrap_as.  pay is [null, bytes]; mech_type "NULL" asks for the
\* configured default; ruid is the uid the mechanisms sign as (the process's)
flux_sign_wrap_as(c0, conf, dn, ruid, userid, pay, paysz, mech_type, flags) ==
    IF userid < 0 \/ flags # 0 \/ paysz < 0 \/ (paysz > 0 /\ pay.null)
    THEN WrapFail(security_error(set_errno(c0, "EINVAL"), "NULL", ""), <<"args">>)
    ELSE wrap_initialized(sign_init(c0, conf), conf, dn, ruid, userid, pay, paysz,
                          mech_type)

strchr_from(s, c, start) ==
    IF \A i \in start..Len(s) : s[i] # c THEN 0
    ELSE CHOOSE i \in start..Len(s) : s[i] = c /\ \A j \in start..(i - 1) : s[j] # c

\* header_decode after the base64 decoding bin and the bundle decoding kv
header_decoded(p, bin, kv) ==
    IF bin.rc < 0 \/ ~kv.ok
    THEN [ok |-> FALSE, header |-> <<>>, endptr |-> 0]
    ELSE [ok |-> TRUE, header |-> kv.kv, endptr |-> p]

header_decode_bin(p, bin) == header_decoded(p, bin, kv_decode(bin.bin))

\* header_decode with p the index of the first '.'
header_decode_to(input, p) ==
    IF p = 0 THEN [ok |-> FALSE, header |-> <<>>, endptr |-> 0]
    ELSE header_decode_bin(p, sodium_base642bin(SubSeq(input, 1, p - 1)))

\* header_decode: base64 and key/value decode of the bytes before the first
\* '.'; endptr is the index of that '.'
header_decode(input) == header_decode_to(input, strchr(input, 46))

\* payload_decode_cpy after the base64 decoding bin, which overwrote the
\* start of the unwrap buffer
payload_decoded(p, bin, buf) ==
    IF bin.rc < 0
    THEN [len |-> -1, buf |-> bin.bin \o SubSeq(buf, Len(bin.bin) + 1, Len(buf)),
          endptr |-> 0]
    ELSE [len |-> Len(bin.bin),
          buf |-> bin.bin \o SubSeq(buf, Len(bin.bin) + 1, Len(buf)),
          endptr |-> p]

\* payload_decode_cpy with p the index of the next '.'
payload_decode_to(input, start, buf, p) ==
    IF p = 0 THEN [len |-> -1, buf |-> buf, endptr |-> 0]
    ELSE payload_decoded(p, sodium_base642bin(SubSeq(input, start, p - 1)), buf)

\* payload_decode_cpy: base64 decode of the bytes from start to the next '.'
\* into the unwrap buffer; len is the decoded size or -1
payload_decode_cpy(input, start, buf) ==
    payload_decode_to(input, start, buf, strchr_from(input, 46, start))

\* mech_allowed answering for the array instead of the name
mech_allowed_any(name, allowed) == Len(allowed) > 0

\* mech_allowed: name is one of the strings of the allowed array
mech_allowed(name, allowed) ==
    \E i \in 1..Len(allowed) : StrBytes(cf_string(allowed[i])) = name

UnwrapFail(c, steps) ==
    [c |-> c, rc |-> -1, payload |-> <<>>, paynull |-> TRUE, paysz |-> -1,
     mech |-> "", userid |-> -1, steps |-> steps]

\* unwrap_verify that never looks at the signature
unwrap_verify_skipped(c, dn, flags, mech, header, data, signature) ==
    [ok |-> TRUE, c |-> c, steps |-> <<>>]

\* unwrap_verify with the mechanism's init called before the flag is tested
unwrap_verify_init_first(c, dn, flags, mech, header, data, signature) ==
    IF has_init(mech) /\ ~mech_init(mech, dn)
    THEN [ok |-> FALSE,
          c |-> security_error(set_errno(c, "ENOENT"), "sign-mech-init: %s", mech),
          steps |-> <<"mech_init">>]
    ELSE IF flags = FLUX_SIGN_NOVERIFY
    THEN [ok |-> TRUE, c |-> c,
          steps |-> IF has_init(mech) THEN <<"mech_init">> ELSE <<>>]
    ELSE IF ~mech_verify(mech, header, data, signature)
    THEN [ok |-> FALSE,
          c |-> security_error(set_errno(c, "EINVAL"), "sign-mech-verify: %s", mech),
          steps |-> (IF has_init(mech) THEN <<"mech_init">> ELSE <<>>)
                    \o <<"mech_verify">>]
    ELSE [ok |-> TRUE, c |-> c,
          steps |-> (IF has_init(mech) THEN <<"mech_init">> ELSE <<>>)
                    \o <<"mech_verify">>]

\* the mechanism-specific verification of sign_unwrap, skipped under
\* FLUX_SIGN_NOVERIFY: data is the HEADER.PAYLOAD prefix of the input
unwrap_verify(c, dn, flags, mech, header, data, signature) ==
    IF flags = FLUX_SIGN_NOVERIFY THEN [ok |-> TRUE, c |-> c, steps |-> <<>>]
    ELSE IF has_init(mech) /\ ~mech_init(mech, dn)
    THEN [ok |-> FALSE,
          c |-> security_error(set_errno(c, "ENOENT"), "sign-mech-init: %s", mech),
          steps |-> <<"mech_init">>]
    ELSE IF ~mech_verify(mech, header, data, signature)
    THEN [ok |-> FALSE,
          c |-> security_error(set_errno(c, "EINVAL"), "sign-mech-verify: %s", mech),
          steps |-> (IF has_init(mech) THEN <<"mech_init">> ELSE <<>>)
                    \o <<"mech_verify">>]
    ELSE [ok |-> TRUE, c |-> c,
          steps |-> (IF has_init(mech) THEN <<"mech_init">> ELSE <<>>)
                    \o <<"mech_verify">>]

\* sign_unwrap, last part: the mechanism's verdict v, then the outputs
unwrap_result(c1, pd, v, mech, userid, s7) ==
    IF ~v.ok THEN UnwrapFail(v.c, s7 \o v.steps)
    ELSE [c |-> c1, rc |-> 0,
          payload |-> SubSeq(c1.unwrapbuf, 1, pd.len),
          paynull |-> ~(pd.len > 0), paysz |-> pd.len,
          mech |-> mech, userid |-> userid.val, steps |-> s7 \o v.steps]

\* sign_unwrap from the decoded payload pd on
unwrap_payload(c, hd, pd, mech, userid, s7, dn, input, flags) ==
    IF pd.len < 0
    THEN UnwrapFail(security_error(set_errno([c EXCEPT !.unwrapbuf = pd.buf], "EINVAL"),
                        "sign-unwrap: payload decode error: %s", "EINVAL"), s7)
    ELSE unwrap_result([c EXCEPT !.unwrapbuf = pd.buf], pd,
                       unwrap_verify([c EXCEPT !.unwrapbuf = pd.buf], dn, flags, mech,
                                     hd.header,
                                     SubSeq(input.s, 1, pd.endptr - 1),
                                     SubSeq(input.s, pd.endptr + 1, Len(input.s))),
                       mech, userid, s7)

\* sign_unwrap from the header entries on: version, mechanism, policy, userid
unwrap_header(c, hd, version, mechanism, userid, conf, dn, input, flags, check_allowed) ==
    LET s2 == <<"args", "sign_init", "header_decode", "version">>
        s3 == Append(s2, "mechanism")
        s4 == Append(s3, "lookup_mech")
        s5 == IF check_allowed THEN Append(s4, "mech_allowed") ELSE s4
        s6 == Append(s5, "userid")
    IN
    IF ~version.ok
    THEN UnwrapFail(security_error(set_errno(c, "EINVAL"),
                        "sign-unwrap: header version missing", ""), s2)
    ELSE IF int64_ne(version, sign_version)
    THEN UnwrapFail(security_error(set_errno(c, "EINVAL"),
                        "sign-unwrap: header version=%d unknown",
                        int_cast(version)), s2)
    ELSE IF ~mechanism.ok
    THEN UnwrapFail(security_error(set_errno(c, "EINVAL"),
                        "sign-unwrap: header mechanism missing", ""), s3)
    ELSE IF lookup_mech(mechanism.val) = "NULL"
    THEN UnwrapFail(security_error(set_errno(c, "EINVAL"),
                        "sign-unwrap: header mechanism=%s unknown", mechanism.val), s4)
    ELSE IF check_allowed /\ ~mech_allowed(mechanism.val, conf["allowed-types"].a)
    THEN UnwrapFail(security_error(set_errno(c, "EINVAL"),
                        "sign-unwrap: header mechanism=%s not allowed", mechanism.val), s5)
    ELSE IF ~userid.ok
    THEN UnwrapFail(security_error(set_errno(c, "EINVAL"),
                        "sign-unwrap: header userid missing", ""), s6)
    ELSE unwrap_payload(c, hd, payload_decode_cpy(input.s, hd.endptr + 1, c.unwrapbuf),
                        lookup_mech(mechanism.val), userid,
                        Append(s6, "payload_decode"), dn, input, flags)

\* sign_unwrap from the decoded header hd on
unwrap_decoded(c, hd, conf, dn, input, flags, check_allowed) ==
    IF ~hd.ok
    THEN UnwrapFail(security_error(set_errno(c, "EINVAL"),
                        "sign-unwrap: header decode error: %s", "EINVAL"),
                    <<"args", "sign_init", "header_decode">>)
    ELSE unwrap_header(c, hd, kv_get(hd.header, "version", 105),
                       kv_get(hd.header, "mechanism", 115),
                       kv_get(hd.header, "userid", 105),
                       conf, dn, input, flags, check_allowed)

\* sign_unwrap from the engine i that sign_init returned on
unwrap_initialized(i, conf, dn, input, flags, check_allowed) ==
    IF ~i.ok THEN UnwrapFail(i.c, <<"args", "sign_init">>)
    ELSE unwrap_decoded(i.c, header_decode(input.s), conf, dn, input, flags,
                        check_allowed)

\* sign_unwrap.  input is [null, s]
sign_unwrap(c0, conf, dn, input, flags, check_allowed) ==
    IF input.null \/ ~(flags = 0 \/ flags = FLUX_SIGN_NOVERIFY)
    THEN UnwrapFail(security_error(set_errno(c0, "EINVAL"), "NULL", ""), <<"args">>)
    ELSE unwrap_initialized(sign_init(c0, conf), conf, dn, input, flags, check_allowed)

flux_sign_unwrap_anymech(c0, conf, dn, input, flags) ==
    sign_unwrap(c0, conf, dn, input, flags, FALSE)

flux_sign_unwrap(c0, conf, dn, input, flags) ==
    [sign_unwrap(c0, conf, dn, input, flags, TRUE) EXCEPT !.mech = ""]

(***************************************************************************)
(* The callers of the library: one security context per process, any call  *)
(* in any order.                                                           *)
(***************************************************************************)
NoEnvelope ==
    [has |-> FALSE, s |-> <<>>, U |-> -1, P |-> <<>>, M |-> "", arg |-> "",
     tampered |-> FALSE, pos |-> 0]

NoCall == [op |-> "none"]

\* an envelope built outside this context: header entries, payload bytes,
\* signature string
Craft(header, pay, sig) ==
    signature_cat(payload_encode_cat(header_encode_cpy(header), pay), sig)

\* the decimal text of 2^32 + 1
WideVersion == <<52, 50, 57, 52, 57, 54, 55, 50, 57, 55>>

\* a header whose version entry holds the text vt (no entry for no text)
HdrText(vt, mech, userid) ==
    (IF vt # <<>> THEN <<[key |-> StrBytes("version"), type |-> 105,
                          val |-> vt]>> ELSE <<>>)
    \o (IF mech # "" THEN <<[key |-> StrBytes("mechanism"), type |-> 115,
                             val |-> StrBytes(mech)]>> ELSE <<>>)
    \o (IF userid >= 0 THEN <<[key |-> StrBytes("userid"), type |-> 105,
                              val |-> IntBytes(userid)]>> ELSE <<>>)

Hdr(version, mech, userid) ==
    HdrText(IF version >= 0 THEN IntBytes(version) ELSE <<>>, mech, userid)

ForeignEnvelopes ==
    { Craft(Hdr(1, "none", 1), <<104, 105>>, StrBytes("none")),
      Craft(Hdr(2, "none", 1), <<104, 105>>, StrBytes("none")),
      Craft(HdrText(WideVersion, "none", 1), <<104, 105>>, StrBytes("none")),
      Craft(Hdr(-1, "none", 1), <<104, 105>>, StrBytes("none")),
      Craft(Hdr(1, "", 1), <<104, 105>>, StrBytes("none")),
      Craft(Hdr(1, "bogus", 1), <<104, 105>>, StrBytes("none")),
      Craft(Hdr(1, "none", -1), <<104, 105>>, StrBytes("none")),
      header_encode_cpy(Hdr(1, "none", 1)) \o <<46>> \o <<97, 71, 107, 61>>,
      <<97, 71, 107, 61>> }

\* the argument lists wrap is called with: well-formed ones for every uid
\* and mechanism (and no mechanism), the empty payload under every mechanism,
\* and one list for each way the first check of flux_sign_wrap_as fails
WrapArgs ==
    [userid : Uids, pay : {[null |-> FALSE, bytes |-> <<104, 105>>]},
     paysz : {-2}, mech_type : Mechs \cup {"NULL"}, flags : {0}]
    \cup
    [userid : {1}, pay : {[null |-> FALSE, bytes |-> <<>>]},
     paysz : {-2}, mech_type : Mechs, flags : {0}]
    \cup
    { [userid |-> 1, pay |-> [null |-> TRUE, bytes |-> <<>>], paysz |-> 0,
       mech_type |-> "NULL", flags |-> 0],
      [userid |-> 1, pay |-> [null |-> TRUE, bytes |-> <<>>], paysz |-> 2,
       mech_type |-> "NULL", flags |-> 0],
      [userid |-> -1, pay |-> [null |-> FALSE, bytes |-> <<104, 105>>],
       paysz |-> -2, mech_type |-> "NULL", flags |-> 0],
      [userid |-> 1, pay |-> [null |-> FALSE, bytes |-> <<104, 105>>],
       paysz |-> -1, mech_type |-> "NULL", flags |-> 0],
      [userid |-> 1, pay |-> [null |-> FALSE, bytes |-> <<104, 105>>],
       paysz |-> -2, mech_type |-> "NULL", flags |-> 1],
      [userid |-> 1, pay |-> [null |-> FALSE, bytes |-> <<104, 105>>],
       paysz |-> -2, mech_type |-> "bogus", flags |-> 0],
      [userid |-> 1, pay |-> [null |-> FALSE, bytes |-> <<104, 105>>],
       paysz |-> -2, mech_type |-> "NONE", flags |-> 0] }

\* paysz -2 above stands for "the length of pay"
ArgSize(a) == IF a.paysz = -2 THEN Len(a.pay.bytes) ELSE a.paysz

\* no exec pipeline runs in the process that only calls the library
ExecIdle ==
    /\ xcfg = "none"
    /\ req = "none"
    /\ pc = "none"
    /\ chan = "none"
    /\ obs = "none"
    /\ prev = "none"

Strip(r) == [k \in DOMAIN r \ {"c"} |-> r[k]]

Enter(c) == [c EXCEPT !.fresh = FALSE]

\* what of the context an unwrap call depends on: the attached engine and
\* its unwrap buffer
Before(c) == [sign |-> c.sign, unwrapbuf |-> c.unwrapbuf]

\* the call returned r: the context is as the library left it, and a
\* successful wrap hands the caller the envelope in the wrap buffer
WrapReturns(a, r) ==
    /\ ctx' = r.c
    /\ res' = [op |-> "wrap", a |-> a, r |-> Strip(r)]
    /\ env' = IF r.rc = 0
              THEN [has |-> TRUE, s |-> r.c.wrapbuf, U |-> a.userid,
                    P |-> SubSeq(a.pay.bytes, 1, ArgSize(a)), M |-> r.mech,
                    arg |-> a.mech_type, tampered |-> FALSE, pos |-> 0]
              ELSE env
    /\ UNCHANGED <<cfg, uid, down>>
    /\ UNCHANGED execvars

Wrap(a) ==
    WrapReturns(a, flux_sign_wrap_as(Enter(ctx), cfg, down, uid, a.userid, a.pay,
                                     ArgSize(a), a.mech_type, a.flags))

UnwrapInputs ==
    {[null |-> TRUE, s |-> <<>>]}
    \cup (IF env.has THEN {[null |-> FALSE, s |-> env.s]} ELSE {})

UnwrapReturns(op, input, flags, r) ==
    /\ ctx' = r.c
    /\ res' = [op |-> op, input |-> input, flags |-> flags,
               pre |-> Before(ctx), r |-> Strip(r)]
    /\ UNCHANGED <<cfg, uid, down, env>>
    /\ UNCHANGED execvars

Unwrap(input, flags) ==
    UnwrapReturns("unwrap", input, flags,
                  flux_sign_unwrap(Enter(ctx), cfg, down, input, flags))

UnwrapAnymech(input, flags) ==
    UnwrapReturns("unwrap_anymech", input, flags,
                  flux_sign_unwrap_anymech(Enter(ctx), cfg, down, input, flags))

\* the worlds a context lives in: a configuration and the back-ends that
\* are down
SignWorlds ==
    [cfg : SignConfigs, down : {{}}]
    \cup {[cfg |-> SignTable(-100, "munge", <<CfStr("munge"), CfStr("curve")>>),
           down |-> {"munge"}]}

InitSign ==
    /\ \E w \in SignWorlds : cfg = w.cfg /\ down = w.down
    /\ uid = 1
    /\ ctx = NewContext
    /\ env = NoEnvelope
    /\ res = NoCall
    /\ ExecIdle

UnwrapFlags == {0, FLUX_SIGN_NOVERIFY, 2}

NextSign ==
    \/ \E a \in WrapArgs : Wrap(a)
    \/ \E input \in UnwrapInputs, flags \in UnwrapFlags : Unwrap(input, flags)
    \/ \E input \in UnwrapInputs, flags \in UnwrapFlags : UnwrapAnymech(input, flags)

SpecSign == InitSign /\ [][NextSign]_vars

(***************************************************************************)
(* An envelope crosses untrusted hands between wrap and unwrap: one bit of *)
(* one byte is flipped, or a string built elsewhere is handed to unwrap.   *)
(***************************************************************************)
FlipBit(x, b) == IF (x \div (2 ^ b)) % 2 = 1 THEN x - 2 ^ b ELSE x + 2 ^ b

Tamper(i, b) ==
    /\ env.has
    /\ ~env.tampered
    /\ res.op = "wrap"
    /\ i \in 1..Len(env.s)
    /\ env' = [env EXCEPT !.s[i] = FlipBit(@, b), !.tampered = TRUE, !.pos = i]
    /\ UNCHANGED <<cfg, uid, down, ctx, res>>
    /\ UNCHANGED execvars

Forge(e) ==
    /\ ~env.has
    /\ res.op = "none"
    /\ env' = [NoEnvelope EXCEPT !.has = TRUE, !.s = e, !.tampered = TRUE]
    /\ UNCHANGED <<cfg, uid, down, ctx, res>>
    /\ UNCHANGED execvars

\* the wraps whose envelopes are tampered with
TamperWrapArgs ==
    [userid : Uids, pay : {[null |-> FALSE, bytes |-> <<104, 105>>]},
     paysz : {-2}, mech_type : Mechs, flags : {0}]

TamperWorlds ==
    { [cfg |-> SignTable(30, "none", <<CfStr("none")>>), down |-> {}],
      [cfg |-> SignTable(-100, "munge", <<CfStr("munge"), CfStr("curve")>>),
       down |-> {}] }

InitTamper ==
    /\ \E w \in TamperWorlds : cfg = w.cfg /\ down = w.down
    /\ uid = 1
    /\ ctx = NewContext
    /\ env = NoEnvelope
    /\ res = NoCall
    /\ ExecIdle

\* one wrap, one change of the envelope, one unwrap
NextTamper ==
    \/ \E a \in TamperWrapArgs : res.op = "none" /\ ~env.has /\ Wrap(a)
    \/ \E i \in 1..Len(env.s), b \in 0..MaxFlipBit : Tamper(i, b)
    \/ \E e \in ForeignEnvelopes : Forge(e)
    \/ \E flags \in {0, FLUX_SIGN_NOVERIFY} :
           /\ env.has
           /\ res.op \in {"none", "wrap"}
           /\ Unwrap([null |-> FALSE, s |-> env.s], flags)
    \/ \E flags \in {0, FLUX_SIGN_NOVERIFY} :
           /\ env.has
           /\ res.op \in {"none", "wrap"}
           /\ UnwrapAnymech([null |-> FALSE, s |-> env.s], flags)

SpecTamper == InitTamper /\ [][NextTamper]_vars

(***************************************************************************)
(* The exec pipeline of the IMP (src/imp/exec/exec.c).  In privsep mode    *)
(* three processes take part: u, the unprivileged child that reads the     *)
(* request; p, the privileged parent; s, the child p forks for the shell.  *)
(* Without privilege there is only u.                                      *)
(***************************************************************************)
\* uids with a passwd entry on the host (uid 9 below has none)
Passwd == {0, 1, 2}

\* the users that invoke flux-imp
Callers == {1, 2}

Shells == {"sh", "bash", "evil"}

Args == {"a", "b"}

\* the strings given as J: envelopes signed by uid 1 (and one by root), one
\* of them claiming another user under munge, and a string that is no
\* envelope
ExecJ ==
    { <<"none0", make_envelope("none", 1, 0, <<104, 105>>)>>,
      <<"none1", make_envelope("none", 1, 1, <<104, 105>>)>>,
      <<"none2", make_envelope("none", 1, 2, <<104, 105>>)>>,
      <<"none9", make_envelope("none", 1, 9, <<104, 105>>)>>,
      <<"munge1", make_envelope("munge", 1, 1, <<104, 105>>)>>,
      <<"munge0", make_envelope("munge", 0, 0, <<104, 105>>)>>,
      <<"munge1as2", make_envelope("munge", 1, 2, <<104, 105>>)>>,
      <<"garbage", <<97, 71, 107, 61>>>> }

JNames == {e[1] : e \in ExecJ}

JString(j) == (CHOOSE e \in ExecJ : e[1] = j)[2]

\* the exec request bundle; "missing" stands for a key that is not there
\* (no args: the empty vector), NoBundle for an empty channel
NoBundle == [J |-> "", shell_path |-> "", args |-> <<>>]

NoExec == [by |-> "none", shell |-> "", args |-> <<>>, uid |-> -1, errno |-> ""]

NoObs ==
    [helper |-> "none", sent |-> 0, forked |-> 0, target |-> -1,
     switched |-> -1, exec |-> NoExec, unwraps |-> {}, pam |-> "none",
     status |-> [kind |-> "none", n |-> 0],
     exit |-> [u |-> -1, p |-> -1], why |-> [u |-> "", p |-> ""],
     imp_child |-> -1, blocked |-> {}, handled |-> {}, pending |-> {},
     arrived |-> <<>>, kills |-> <<>>, defaulted |-> {}, cgroup |-> {},
     read |-> "none", wire |-> <<>>, trace |-> <<>>]

\* the pid fork returns for the shell child, and the pid of a process the
\* shell leaves behind in its cgroup
ShellPid == 7

DescendantPid == 8

\* the signals setup_signal_forwarding installs fwd_signal for
Forwarded ==
    {"SIGTERM", "SIGINT", "SIGHUP", "SIGCONT", "SIGALRM", "SIGWINCH",
     "SIGTTIN", "SIGTTOU"}

\* the signals sent to the IMP: the forwarded ones and one that is not
Signals == Forwarded \cup {"SIGUSR1"}

\* at most this many signals are sent to the IMP in one run
MaxSignals == 2

\* fwd_signal: the kill calls the handler makes
fwd_signal(imp_child, signal) ==
    IF imp_child > 0 THEN <<[pid |-> imp_child, sig |-> signal]>> ELSE <<>>

\* a fork with the signal mask left as it was
sigblock_all_skipped(o) == o

\* sigblock_all
sigblock_all(o) == [o EXCEPT !.blocked = Signals]

\* handlers installed, the signal mask left full
setup_signal_forwarding_blocked(o) ==
    [o EXCEPT !.handled = Forwarded, !.blocked = Signals]

\* setup_signal_forwarding: fwd_signal for each forwarded signal, every
\* other signal blocked
setup_signal_forwarding(o) ==
    [o EXCEPT !.handled = Forwarded, !.blocked = Signals \ Forwarded]

\* the exit status without the 128 offset
wait_exit_status_plain(status) == status.n

\* the exit status of the parent for the wait status of the child
wait_exit_status(status) ==
    IF status.kind = "exit" THEN status.n
    ELSE IF status.kind = "signal" THEN status.n + 128
    ELSE 1

\* imp_die (code, msg) in process p
imp_die(o, p, code, msg) == [o EXCEPT !.exit[p] = code, !.why[p] = msg]

\* the allowed-users check answering yes for everybody
user_check_skipped(x, caller) == TRUE

imp_exec_user_allowed(x, caller) == caller \in x.allowed_users

\* the allowed-shells check answering yes for every shell
imp_exec_shell_allowed_any(x, shell) == TRUE

imp_exec_shell_allowed(x, shell) == shell \in x.allowed_shells

\* allow-unprivileged-exec taken as true whatever the table says
imp_exec_unprivileged_allowed_any(x) == TRUE

\* allow_unpriv is what cf_bool gives for the key: FALSE when the key is
\* false and when it is absent
imp_exec_unprivileged_allowed(x) == x.allow_unpriv

imp_supports_pam(x) == x.pam

\* imp_exec_unwrap after the library call, made with these flags, returned r:
\* on success exec->user_pwd is the passwd entry of the userid returned
imp_exec_unwrapped(r, flags) ==
    IF r.rc < 0
    THEN [ok |-> FALSE, userid |-> -1,
          calls |-> {[fn |-> "flux_sign_unwrap", flags |-> flags, rc |-> r.rc,
                      userid |-> r.userid]},
          why |-> "exec: signature validation failed: %s"]
    ELSE IF ~(r.userid \in Passwd)
    THEN [ok |-> FALSE, userid |-> r.userid,
          calls |-> {[fn |-> "flux_sign_unwrap", flags |-> flags, rc |-> r.rc,
                      userid |-> r.userid]},
          why |-> "exec: userid %d is invalid on %s"]
    ELSE [ok |-> TRUE, userid |-> r.userid,
          calls |-> {[fn |-> "flux_sign_unwrap", flags |-> flags, rc |-> r.rc,
                      userid |-> r.userid]},
          why |-> ""]

\* imp_exec_unwrap calling the library with FLUX_SIGN_NOVERIFY
imp_exec_unwrap_noverify(conf, dn, J) ==
    imp_exec_unwrapped(flux_sign_unwrap(NewContext, conf, dn,
                                        [null |-> FALSE, s |-> JString(J)],
                                        FLUX_SIGN_NOVERIFY),
                       FLUX_SIGN_NOVERIFY)

imp_exec_unwrap(conf, dn, J) ==
    imp_exec_unwrapped(flux_sign_unwrap(NewContext, conf, dn,
                                        [null |-> FALSE, s |-> JString(J)], 0),
                       0)

InitFail(msg) == [ok |-> FALSE, userid |-> -1, calls |-> {}, why |-> msg]

imp_exec_init_kv(conf, dn, kv) ==
    IF kv.J = "missing" THEN InitFail("exec: Error decoding J")
    ELSE IF kv.shell_path = "missing"
    THEN InitFail("exec: Failed to get job shell path")
    ELSE IF kv.args = <<>>
    THEN InitFail("exec: Failed to get job shell arguments")
    ELSE imp_exec_unwrap(conf, dn, kv.J)

\* imp_exec_init_stream: r.J "missing" is input that is not {"J": string}
imp_exec_init_stream(conf, dn, r) ==
    IF r.argc < 4 THEN InitFail("exec: missing arguments to exec subcommand")
    ELSE IF r.J = "missing" THEN InitFail("exec: invalid json input: %s")
    ELSE imp_exec_unwrap(conf, dn, r.J)

\* imp_exec_put_kv: J, the shell path and argv[2..] of the request
imp_exec_put_kv(r) ==
    [J |-> r.J, shell_path |-> r.shell, args |-> <<r.shell, r.arg>>]

\* the exit code imp_exec computes after execvp returned with errno e
imp_exec_exit_code(e) ==
    LET first  == IF e = "EPERM" \/ e = "EACCES" THEN 126 ELSE 0
        second == 127
    IN  second

\* the root check answering no for every uid
target_is_root_never(userid) == FALSE

\* exec->user_pwd->pw_uid == 0
target_is_root(userid) == userid = 0

Recorded(o, by, calls) ==
    [o EXCEPT !.unwraps = @ \cup {[by |-> by, call |-> c] : c \in calls}]

Exit(p) == pc' = [pc EXCEPT ![p] = "exited"]

Goto(p, l) == pc' = [pc EXCEPT ![p] = l]

Keep == UNCHANGED <<xcfg, req, prev>> /\ UNCHANGED signvars

\* imp_exec_unprivileged up to the allowed-users check
UnprivStart ==
    /\ pc.u = "create"
    /\ ~req.compromised
    /\ IF ~xcfg.loads
       THEN /\ obs' = imp_die(obs, "u", 1, "exec: Error loading security context: %s")
            /\ Exit("u")
       ELSE IF ~imp_exec_user_allowed(xcfg, req.caller)
       THEN /\ obs' = imp_die(obs, "u", 1, "exec: user %s not in allowed-users list")
            /\ Exit("u")
       ELSE obs' = obs /\ Goto("u", "input")
    /\ UNCHANGED chan
    /\ Keep

\* an empty FLUX_IMP_EXEC_HELPER taken as no helper
imp_exec_input_lenient(helper) ==
    IF helper \in {"unset", "empty"} THEN "stdin" ELSE "helper"

\* where imp_exec_unprivileged takes its input from, by what getenv
\* ("FLUX_IMP_EXEC_HELPER") returns: NULL ("unset"), "" ("empty") or a
\* command
imp_exec_input(helper) ==
    IF helper = "unset" THEN "stdin"
    ELSE IF helper = "empty" THEN "die"
    ELSE "helper"

\* imp_exec_init_stream was given the stream src (it reads the stream only
\* when the command line has its arguments); helper is what became of the
\* helper process: "spawned" and not waited for, or "waited"
InputFrom(o, src, helper) ==
    [o EXCEPT !.helper = helper,
              !.read = IF req.argc < 4 THEN "none" ELSE src]

\* the rest of imp_exec_unprivileged's input step, s being what
\* imp_exec_init_stream returns
UnprivInputRead(s) ==
    CASE imp_exec_input(req.helper) = "die" ->
           /\ obs' = imp_die(obs, "u", 1, "exec: FLUX_IMP_EXEC_HELPER is empty")
           /\ Exit("u")
      [] imp_exec_input(req.helper) = "helper" /\ req.helper = "nopopen" ->
           /\ obs' = imp_die(obs, "u", 1, "exec: failed to invoke helper: %s")
           /\ Exit("u")
      [] imp_exec_input(req.helper) = "helper" /\ req.helper # "nopopen" ->
           IF ~s.ok
           THEN /\ obs' = imp_die(Recorded(InputFrom(obs, "helper", "spawned"),
                                           "u", s.calls), "u", 1, s.why)
                /\ Exit("u")
           ELSE IF req.helper = "fail"
           THEN /\ obs' = imp_die(Recorded(InputFrom(obs, "helper", "waited"),
                                           "u", s.calls), "u", 1,
                                  "exec: helper %s failed with status=0x%04x")
                /\ Exit("u")
           ELSE /\ obs' = Recorded(InputFrom(obs, "helper", "waited"), "u", s.calls)
                /\ Goto("u", "ready")
      [] OTHER ->
           IF ~s.ok
           THEN /\ obs' = imp_die(Recorded(InputFrom(obs, "stdin", "none"),
                                           "u", s.calls), "u", 1, s.why)
                /\ Exit("u")
           ELSE /\ obs' = Recorded(InputFrom(obs, "stdin", "none"), "u", s.calls)
                /\ Goto("u", "ready")

\* the input of the request: from the helper when FLUX_IMP_EXEC_HELPER is
\* set, from stdin otherwise
UnprivInput ==
    /\ pc.u = "input"
    /\ UnprivInputRead(imp_exec_init_stream(cfg, down, req))
    /\ UNCHANGED chan
    /\ Keep

\* privsep mode: check the shell, write the bundle to the parent, exit 0
UnprivSend ==
    /\ pc.u = "ready"
    /\ req.ps
    /\ IF ~imp_exec_shell_allowed(xcfg, req.shell)
       THEN /\ obs' = imp_die(obs, "u", 1, "exec: shell not in allowed-shells")
            /\ chan' = chan
       ELSE /\ obs' = [obs EXCEPT !.sent = @ + 1, !.exit.u = 0,
                               !.wire = Append(@, [from |-> "u", msg |-> "bundle"])]
            /\ chan' = imp_exec_put_kv(req)
    /\ Exit("u")
    /\ Keep

\* without a privileged parent: imp_exec in the caller's identity; execvp
\* returns with errno e, or ("0") does not return
UnprivExec(e) ==
    /\ pc.u = "ready"
    /\ ~req.ps
    /\ IF ~imp_exec_unprivileged_allowed(xcfg)
       THEN /\ e = "0"
            /\ obs' = imp_die(obs, "u", 1,
                              "exec: IMP not installed setuid, operation disabled.")
            /\ Exit("u")
       ELSE LET x == [by |-> "u", shell |-> req.shell,
                      args |-> <<req.shell, req.arg>>, uid |-> req.caller,
                      errno |-> e]
            IN  IF e = "0"
                THEN obs' = [obs EXCEPT !.exec = x] /\ Goto("u", "shell")
                ELSE /\ obs' = imp_die([obs EXCEPT !.exec = x], "u",
                                       imp_exec_exit_code(e), "%s: %s")
                     /\ Exit("u")
    /\ UNCHANGED chan
    /\ Keep

\* the shell that replaced the unprivileged IMP exits
UnprivShellExit(n) ==
    /\ pc.u = "shell"
    /\ obs' = [obs EXCEPT !.exit.u = n]
    /\ Exit("u")
    /\ UNCHANGED chan
    /\ Keep

\* the unprivileged child does not run the IMP's code: it writes what it
\* likes to the channel, or nothing, and exits as it likes
UnprivCompromised(b, st) ==
    /\ pc.u = "create"
    /\ req.compromised
    /\ st = 0 \/ b = [J |-> req.J, shell_path |-> "sh", args |-> <<"sh", "a">>]
    /\ chan' = b
    /\ obs' = imp_die([obs EXCEPT !.wire = IF b = NoBundle THEN @
                                           ELSE Append(@, [from |-> "u",
                                                           msg |-> "bundle"])],
                      "u", st, "compromised")
    /\ Exit("u")
    /\ Keep

\* the parent reads one bundle from the channel; end of file without a
\* bundle is fatal
PrivRecv ==
    /\ pc.p = "recv"
    /\ pc.u = "exited"
    /\ IF chan = NoBundle
       THEN obs' = imp_die(obs, "p", 1, "privsep: no bundle") /\ Exit("p")
       ELSE obs' = obs /\ Goto("p", "create")
    /\ UNCHANGED chan
    /\ Keep

\* imp_exec_privileged up to the allowed-users check
PrivStart ==
    /\ pc.p = "create"
    /\ IF ~xcfg.loads
       THEN /\ obs' = imp_die(obs, "p", 1, "exec: Error loading security context: %s")
            /\ Exit("p")
       ELSE IF ~imp_exec_user_allowed(xcfg, req.caller)
       THEN /\ obs' = imp_die(obs, "p", 1, "exec: user %s not in allowed-users list")
            /\ Exit("p")
       ELSE obs' = obs /\ Goto("p", "init")
    /\ UNCHANGED chan
    /\ Keep

\* the paranoia checks after imp_exec_init_kv returned s
PrivInitChecks(s) ==
    IF ~s.ok
    THEN obs' = imp_die(Recorded(obs, "p", s.calls), "p", 1, s.why) /\ Exit("p")
    ELSE IF target_is_root(s.userid)
    THEN /\ obs' = imp_die(Recorded(obs, "p", s.calls), "p", 1,
                           "exec: switching to user root not supported")
         /\ Exit("p")
    ELSE IF ~imp_exec_shell_allowed(xcfg, chan.shell_path)
    THEN /\ obs' = imp_die(Recorded(obs, "p", s.calls), "p", 1,
                           "exec: shell not in allowed-shells list")
         /\ Exit("p")
    ELSE /\ obs' = [Recorded(obs, "p", s.calls) EXCEPT !.target = s.userid]
         /\ Goto("p", "wait")

\* imp_exec_init_kv on the received bundle and the paranoia checks
PrivInit ==
    /\ pc.p = "init"
    /\ PrivInitChecks(imp_exec_init_kv(cfg, down, chan))
    /\ UNCHANGED chan
    /\ Keep

\* privsep_wait answering 0 whatever became of the child
privsep_wait_any(ok, status) == 0

\* privsep_wait: -1 unless the wait worked and the child exited with 0
privsep_wait(ok, status) == IF ok /\ status = 0 THEN 0 ELSE -1

\* privsep_wait: the unprivileged child must have exited with status 0
PrivWait(ok) ==
    /\ pc.p = "wait"
    /\ pc.u = "exited"
    /\ IF privsep_wait(ok, obs.exit.u) < 0
       THEN obs' = imp_die(obs, "p", 1, "") /\ Exit("p")
       ELSE obs' = obs /\ Goto("p", "pam")
    /\ UNCHANGED chan
    /\ Keep

\* the PAM session, when pam-support is set: pam_setup succeeds (ok) or not
PrivPam(ok) ==
    /\ pc.p = "pam"
    /\ IF imp_supports_pam(xcfg)
       THEN IF xcfg.have_pam
            THEN IF ok
                 THEN obs' = [obs EXCEPT !.pam = "open"] /\ Goto("p", "fork")
                 ELSE /\ obs' = imp_die(obs, "p", 1, "exec: PAM stack failure")
                      /\ Exit("p")
            ELSE /\ ok
                 /\ obs' = imp_die(obs, "p", 1,
                        "exec: pam-support=true, but IMP was built without --enable-pam")
                 /\ Exit("p")
       ELSE ok /\ obs' = obs /\ Goto("p", "fork")
    /\ UNCHANGED chan
    /\ Keep

\* sigblock_all and fork
PrivFork(ok) ==
    /\ pc.p = "fork"
    /\ IF ok
       THEN /\ obs' = [sigblock_all(obs) EXCEPT !.forked = @ + 1,
                                                !.imp_child = ShellPid,
                                                !.cgroup = @ \cup {ShellPid}]
            /\ pc' = [pc EXCEPT !.p = "setup", !.s = "switch"]
       ELSE /\ obs' = imp_die(sigblock_all(obs), "p", 1, "exec: fork: %s")
            /\ Exit("p")
    /\ UNCHANGED chan
    /\ Keep

\* the parent after fork: setup_signal_forwarding
PrivSetup ==
    /\ pc.p = "setup"
    /\ obs' = setup_signal_forwarding(obs)
    /\ Goto("p", "waitpid")
    /\ UNCHANGED chan
    /\ Keep

\* setup_signal_forwarding in its two parts: the loop of sigaction calls,
\* made with the mask still full, and the sigprocmask call that ends it
PrivInstall ==
    /\ pc.p = "setup"
    /\ obs' = [obs EXCEPT !.handled = setup_signal_forwarding(obs).handled]
    /\ Goto("p", "unblock")
    /\ UNCHANGED chan
    /\ Keep

PrivUnblock ==
    /\ pc.p = "unblock"
    /\ obs' = [obs EXCEPT !.blocked = setup_signal_forwarding(obs).blocked]
    /\ Goto("p", "waitpid")
    /\ UNCHANGED chan
    /\ Keep

\* a signal is sent to the privileged IMP while it has the shell child; a
\* signal that is already pending is not queued a second time
SignalArrives(sig) ==
    /\ pc.p \in {"setup", "unblock", "waitpid", "finish"}
    /\ Len(obs.arrived) < MaxSignals
    /\ obs' = [obs EXCEPT !.pending = @ \cup {sig}, !.arrived = Append(@, sig)]
    /\ UNCHANGED <<pc, chan>>
    /\ Keep

\* a pending signal that is not blocked is delivered to the IMP: its
\* handler runs, or the default disposition applies
SignalDelivered(sig) ==
    /\ pc.p \in {"setup", "unblock", "waitpid", "finish"}
    /\ sig \in obs.pending
    /\ ~(sig \in obs.blocked)
    /\ IF sig \in obs.handled
       THEN obs' = [obs EXCEPT !.pending = @ \ {sig},
                               !.kills = @ \o fwd_signal(obs.imp_child, sig)]
       ELSE obs' = [obs EXCEPT !.pending = @ \ {sig},
                               !.defaulted = @ \cup {sig}]
    /\ UNCHANGED <<pc, chan>>
    /\ Keep

\* imp_set_signal_child: the target becomes the process group of the shell
PrivSetSignalChild(pid) ==
    /\ pc.p = "setup"
    /\ obs.imp_child = ShellPid
    /\ obs' = [obs EXCEPT !.imp_child = pid]
    /\ UNCHANGED <<pc, chan>>
    /\ Keep

\* the job shell starts a process that stays in the cgroup
ShellSpawn ==
    /\ pc.s = "shell"
    /\ ~(DescendantPid \in obs.cgroup)
    /\ obs' = [obs EXCEPT !.cgroup = @ \cup {DescendantPid}]
    /\ UNCHANGED <<pc, chan>>
    /\ Keep

\* that process exits
DescendantExit ==
    /\ DescendantPid \in obs.cgroup
    /\ obs' = [obs EXCEPT !.cgroup = @ \ {DescendantPid}]
    /\ UNCHANGED <<pc, chan>>
    /\ Keep

\* a switch that leaves the process as it is
imp_switch_user_noop(o, userid) ==
    [o EXCEPT !.trace = Append(@, "imp_switch_user")]

\* imp_switch_user: real, effective and saved ids become those of userid
imp_switch_user(o, userid) ==
    [o EXCEPT !.switched = userid, !.trace = Append(@, "imp_switch_user")]

\* sigunblock_all in the forked child
sigunblock_all(o) == [o EXCEPT !.trace = Append(@, "sigunblock_all")]

\* the forked child: sigunblock_all, imp_switch_user (exec->user_pwd->pw_uid)
ShellSwitchUser ==
    /\ pc.s = "switch"
    /\ obs' = imp_switch_user(sigunblock_all(obs), obs.target)
    /\ Goto("s", "exec")
    /\ UNCHANGED chan
    /\ Keep

\* the forked child: imp_exec with the shell and arguments of the bundle
ShellExec(e) ==
    /\ pc.s = "exec"
    /\ LET x == [by |-> "s", shell |-> chan.shell_path, args |-> chan.args,
                 uid |-> obs.switched, errno |-> e]
       IN  IF e = "0"
           THEN /\ obs' = [obs EXCEPT !.exec = x,
                               !.trace = @ \o <<"chdir", "execvp">>]
                /\ Goto("s", "shell")
           ELSE /\ obs' = [obs EXCEPT !.exec = x,
                               !.trace = @ \o <<"chdir", "execvp">>,
                               !.status = [kind |-> "exit",
                                           n |-> imp_exec_exit_code(e)],
                               !.cgroup = @ \ {ShellPid}]
                /\ Exit("s")
    /\ UNCHANGED chan
    /\ Keep

\* the job shell exits with code n or is killed by signal n
ShellExit(kind, n) ==
    /\ pc.s = "shell"
    /\ obs' = [obs EXCEPT !.status = [kind |-> kind, n |-> n],
                           !.cgroup = @ \ {ShellPid}]
    /\ Exit("s")
    /\ UNCHANGED chan
    /\ Keep

\* the parent: waitpid returns the child (a pending signal that is not
\* blocked is handled before the call returns to the program), the PAM
\* session is closed, the parent exits with the status of the child
PrivReap ==
    /\ pc.p = "waitpid"
    /\ pc.s = "exited"
    /\ obs.pending \ obs.blocked = {}
    /\ obs' = [obs EXCEPT
                 !.pam = IF @ = "open" THEN "closed" ELSE @,
                 !.exit.p = wait_exit_status(obs.status)]
    /\ Exit("p")
    /\ UNCHANGED chan
    /\ Keep

\* PrivReap in its two parts, so that a signal can arrive between them:
\* waitpid returns the child, which is reaped; imp_child is left as it was
PrivWaitpid ==
    /\ pc.p = "waitpid"
    /\ pc.s = "exited"
    /\ obs.pending \ obs.blocked = {}
    /\ obs' = obs
    /\ Goto("p", "finish")
    /\ UNCHANGED chan
    /\ Keep

\* pam_finish and exit with the status of the child
PrivFinish ==
    /\ pc.p = "finish"
    /\ obs' = [obs EXCEPT
                 !.pam = IF @ = "open" THEN "closed" ELSE @,
                 !.exit.p = wait_exit_status(obs.status)]
    /\ Exit("p")
    /\ UNCHANGED chan
    /\ Keep

StartPc(ps) ==
    [u |-> "create", p |-> IF ps THEN "recv" ELSE "none", s |-> "none"]

Finished == \A k \in {"u", "p", "s"} : pc[k] \in {"none", "exited"}

\* the exit status of flux-imp as its invoker sees it
ImpExit == IF req.ps THEN obs.exit.p ELSE obs.exit.u

\* a second invocation by the same user with the same J and another shell
\* or argument, after one that ran a shell
Again(r) ==
    /\ Finished
    /\ obs.exec.by # "none"
    /\ prev.by = "none"
    /\ prev' = obs.exec
    /\ req' = r
    /\ pc' = StartPc(r.ps)
    /\ chan' = NoBundle
    /\ obs' = NoObs
    /\ UNCHANGED xcfg
    /\ UNCHANGED signvars

AgainRequests ==
    IF req.compromised THEN {req}
    ELSE {[req EXCEPT !.shell = sh, !.arg = a] : sh \in Shells, a \in Args}

ExecConfigs ==
    [loads : {TRUE}, allowed_users : {{1, 2}, {1}},
     allowed_shells : {{"sh"}, {"sh", "bash"}}, allow_unpriv : {TRUE},
     pam : {FALSE}, have_pam : {FALSE}, armed : {FALSE}]
    \cup
    [loads : {TRUE}, allowed_users : {{1, 2}}, allowed_shells : {{"sh"}},
     allow_unpriv : {FALSE}, pam : {FALSE}, have_pam : {FALSE}, armed : {FALSE}]
    \cup
    [loads : {TRUE}, allowed_users : {{1, 2}}, allowed_shells : {{"sh"}},
     allow_unpriv : {TRUE}, pam : {TRUE}, have_pam : BOOLEAN, armed : {FALSE}]
    \cup
    [loads : {FALSE}, allowed_users : {{1, 2}}, allowed_shells : {{"sh"}},
     allow_unpriv : {TRUE}, pam : {FALSE}, have_pam : {FALSE}, armed : {FALSE}]

Requests ==
    [caller : Callers, ps : BOOLEAN, argc : {4}, shell : Shells, arg : {"a"},
     J : JNames \cup {"missing"}, helper : {"unset"}, compromised : {FALSE}]
    \cup
    [caller : Callers, ps : BOOLEAN, argc : {4}, shell : {"sh", "evil"},
     arg : {"a"}, J : {"munge1", "garbage"},
     helper : {"empty", "nopopen", "ok", "fail"}, compromised : {FALSE}]
    \cup
    [caller : {1}, ps : BOOLEAN, argc : {3}, shell : {"sh"}, arg : {"a"},
     J : {"munge1"}, helper : {"unset"}, compromised : {FALSE}]
    \cup
    [caller : Callers, ps : {TRUE}, argc : {4}, shell : {"sh"}, arg : {"a"},
     J : JNames, helper : {"unset"}, compromised : {TRUE}]

\* what a compromised child may write
Bundles ==
    [J : {req.J}, shell_path : Shells, args : {<<"sh", "a">>, <<"evil", "b">>}]
    \cup
    { [J |-> "missing", shell_path |-> "sh", args |-> <<"sh", "a">>],
      [J |-> req.J, shell_path |-> "missing", args |-> <<"sh", "a">>],
      [J |-> req.J, shell_path |-> "sh", args |-> <<>>],
      NoBundle }

ExecWorlds ==
    { [cfg |-> SignTable(30, "none", <<CfStr("none"), CfStr("munge")>>),
       down |-> {}],
      [cfg |-> SignTable(-100, "munge", <<CfStr("munge")>>), down |-> {}] }

InitExec ==
    /\ \E w \in ExecWorlds : cfg = w.cfg /\ down = w.down
    /\ xcfg \in ExecConfigs
    /\ req \in Requests
    /\ uid = req.caller
    /\ ctx = NewContext
    /\ env = NoEnvelope
    /\ res = NoCall
    /\ pc = StartPc(req.ps)
    /\ chan = NoBundle
    /\ obs = NoObs
    /\ prev = NoExec

Errnos == {"0", "EACCES", "EPERM", "ENOENT"}

NextExec ==
    \/ UnprivStart
    \/ UnprivInput
    \/ UnprivSend
    \/ \E e \in Errnos : UnprivExec(e)
    \/ \E n \in {0, 3} : UnprivShellExit(n)
    \/ \E b \in Bundles, st \in {0, 1} : UnprivCompromised(b, st)
    \/ PrivRecv
    \/ PrivStart
    \/ PrivInit
    \/ \E ok \in BOOLEAN : PrivWait(ok)
    \/ \E ok \in BOOLEAN : PrivPam(ok)
    \/ \E ok \in BOOLEAN : PrivFork(ok)
    \/ PrivSetup
    \/ ShellSwitchUser
    \/ \E e \in Errnos : ShellExec(e)
    \/ \E k \in {<<"exit", 0>>, <<"exit", 3>>, <<"signal", 9>>} : ShellExit(k[1], k[2])
    \/ PrivReap
    \/ \E r \in AgainRequests : Again(r)

SpecExec == InitExec /\ [][NextExec]_vars

(***************************************************************************)
(* The privileged parent and its shell child in privsep mode, with signals *)
(* sent to the IMP and with the processes of the IMP's cgroup.             *)
(***************************************************************************)
\* armed: the basename of the IMP's cgroup begins with imp-shell
ShellConfigs ==
    [loads : {TRUE}, allowed_users : {{1, 2}}, allowed_shells : {{"sh"}},
     allow_unpriv : {TRUE}, pam : {FALSE}, have_pam : {FALSE}, armed : BOOLEAN]

ShellRequests ==
    [caller : {1}, ps : {TRUE}, argc : {4}, shell : {"sh"}, arg : {"a"},
     J : {"munge1", "none2"}, helper : {"unset"}, compromised : {FALSE}]

InitShell ==
    /\ cfg = SignTable(30, "none", <<CfStr("none"), CfStr("munge")>>)
    /\ down = {}
    /\ xcfg \in ShellConfigs
    /\ req \in ShellRequests
    /\ uid = req.caller
    /\ ctx = NewContext
    /\ env = NoEnvelope
    /\ res = NoCall
    /\ pc = StartPc(req.ps)
    /\ chan = NoBundle
    /\ obs = NoObs
    /\ prev = NoExec

NextShell ==
    \/ UnprivStart
    \/ UnprivInput
    \/ UnprivSend
    \/ PrivRecv
    \/ PrivStart
    \/ PrivInit
    \/ \E ok \in BOOLEAN : PrivWait(ok)
    \/ \E ok \in BOOLEAN : PrivPam(ok)
    \/ \E ok \in BOOLEAN : PrivFork(ok)
    \/ PrivSetup
    \/ \E sig \in Signals : SignalArrives(sig)
    \/ \E sig \in Signals : SignalDelivered(sig)
    \/ ShellSwitchUser
    \/ \E e \in Errnos : ShellExec(e)
    \/ ShellSpawn
    \/ DescendantExit
    \/ \E k \in {<<"exit", 0>>, <<"exit", 3>>, <<"signal", 9>>, <<"signal", 15>>} :
           ShellExit(k[1], k[2])
    \/ PrivReap

\* the parent runs when it can, and a signal that can be delivered is
SpecShell ==
    /\ InitShell
    /\ [][NextShell]_vars
    /\ WF_vars(PrivSetup)
    /\ WF_vars(\E sig \in Signals : SignalDelivered(sig))

\* the same pipeline with setup_signal_forwarding in its two parts, so that
\* a signal can arrive between them
NextWindow ==
    \/ UnprivStart
    \/ UnprivInput
    \/ UnprivSend
    \/ PrivRecv
    \/ PrivStart
    \/ PrivInit
    \/ \E ok \in BOOLEAN : PrivWait(ok)
    \/ \E ok \in BOOLEAN : PrivPam(ok)
    \/ \E ok \in BOOLEAN : PrivFork(ok)
    \/ PrivInstall
    \/ PrivUnblock
    \/ \E sig \in Signals : SignalArrives(sig)
    \/ \E sig \in Signals : SignalDelivered(sig)
    \/ ShellSwitchUser
    \/ \E e \in Errnos : ShellExec(e)
    \/ \E k \in {<<"exit", 0>>, <<"signal", 15>>} : ShellExit(k[1], k[2])
    \/ PrivReap

SpecWindow ==
    /\ InitShell
    /\ [][NextWindow]_vars
    /\ WF_vars(PrivInstall)
    /\ WF_vars(PrivUnblock)
    /\ WF_vars(\E sig \in Signals : SignalDelivered(sig))

\* the same pipeline with the end of the parent in its two parts, so that
\* a signal can arrive after waitpid has returned
NextReap ==
    \/ UnprivStart
    \/ UnprivInput
    \/ UnprivSend
    \/ PrivRecv
    \/ PrivStart
    \/ PrivInit
    \/ \E ok \in BOOLEAN : PrivWait(ok)
    \/ \E ok \in BOOLEAN : PrivPam(ok)
    \/ \E ok \in BOOLEAN : PrivFork(ok)
    \/ PrivSetup
    \/ \E sig \in Signals : SignalArrives(sig)
    \/ \E sig \in Signals : SignalDelivered(sig)
    \/ ShellSwitchUser
    \/ \E e \in Errnos : ShellExec(e)
    \/ \E k \in {<<"exit", 0>>, <<"signal", 15>>} : ShellExit(k[1], k[2])
    \/ PrivWaitpid
    \/ PrivFinish

SpecReap == InitShell /\ [][NextReap]_vars

\* the same with a caller of imp_set_signal_child
NextGroup ==
    \/ NextShell
    \/ PrivSetSignalChild(-ShellPid)

SpecGroup == InitShell /\ [][NextGroup]_vars

(***************************************************************************)
(* Properties of the sign engine, checked under SpecSign.                  *)
(***************************************************************************)
\* the last call was an unwrap of the envelope the last successful wrap
\* returned, unchanged, with flags f
UnwrappedEnvelope(f) ==
    /\ res.op \in {"unwrap", "unwrap_anymech"}
    /\ ~res.input.null
    /\ env.has
    /\ ~env.tampered
    /\ res.input.s = env.s
    /\ res.flags = f

\* the mechanism the envelope was wrapped under is named in allowed-types
EnvelopeAllowed ==
    env.M \in {cfg["allowed-types"].a[i].s : i \in 1..Len(cfg["allowed-types"].a)}

\* the call returned payload P, size |P| and userid U of the wrap, and
\* unwrap_anymech the mechanism name too
ReturnedWrapped ==
    /\ res.r.rc = 0
    /\ res.r.payload = env.P
    /\ res.r.paysz = Len(env.P)
    /\ res.r.userid = env.U
    /\ res.op = "unwrap_anymech" => res.r.mech = env.M

\* C1 as stated: for every accepted configuration, allowed mechanism M,
\* payload P and userid U >= 0, unwrap of the envelope of wrap_as(U, P, M)
\* on the same context succeeds and returns P, |P| and U (and M from
\* unwrap_anymech).
C1_RoundTripAnyUser ==
    (UnwrappedEnvelope(0) /\ EnvelopeAllowed) => ReturnedWrapped

\* C1 amended: the round trip holds under mechanism none for every U >= 0,
\* and under munge and curve when U is the real uid of the wrapping process.
C1_RoundTrip ==
    (/\ UnwrappedEnvelope(0)
     /\ EnvelopeAllowed
     /\ (env.M = "none" \/ env.U = uid)) => ReturnedWrapped

\* C1 witness: a curve envelope for the caller's own uid has been unwrapped
\* by unwrap_anymech and gave back the payload "hi".
C1_Witness ==
    /\ UnwrappedEnvelope(0)
    /\ EnvelopeAllowed
    /\ res.op = "unwrap_anymech"
    /\ env.M = "curve"
    /\ env.U = uid
    /\ env.P = <<104, 105>>
    /\ res.r.rc = 0
    /\ res.r.payload = <<104, 105>>

\* C2: an envelope whose header names a known mechanism that is not in
\* allowed-types makes flux_sign_unwrap fail with EINVAL, with flags 0 and
\* with NOVERIFY; flux_sign_unwrap_anymech on the same input and context
\* never consults allowed-types and fails only in the mechanism's own
\* init or verify (so never under NOVERIFY).
C2_PolicyOnlyInUnwrap ==
    \A f \in {0, FLUX_SIGN_NOVERIFY} :
        (UnwrappedEnvelope(f) /\ ~EnvelopeAllowed) =>
            /\ res.op = "unwrap" =>
                   /\ res.r.rc = -1
                   /\ ctx.errno = "EINVAL"
                   /\ res.r.steps[Len(res.r.steps)] = "mech_allowed"
            /\ res.op = "unwrap_anymech" =>
                   /\ \A k \in 1..Len(res.r.steps) : res.r.steps[k] # "mech_allowed"
                   /\ \/ res.r.rc = 0 /\ res.r.mech = env.M
                      \/ /\ f = 0
                         /\ res.r.steps[Len(res.r.steps)] \in {"mech_init", "mech_verify"}
                   /\ (env.M = "none" \/ env.U = uid) => res.r.rc = 0

\* C2 witness: with allowed-types = ["curve"], unwrap_anymech has accepted
\* an envelope wrapped under none.
C2_Witness ==
    /\ UnwrappedEnvelope(0)
    /\ ~EnvelopeAllowed
    /\ env.M = "none"
    /\ res.op = "unwrap_anymech"
    /\ res.r.rc = 0

(***************************************************************************)
(* Properties of unwrap on changed input, checked under SpecTamper.        *)
(***************************************************************************)
\* E, the envelope wrap returned, is still in the wrap buffer; its two
\* separators delimit the header, payload and signature regions
FirstDot == strchr(ctx.wrapbuf, 46)

SecondDot == strchr_from(ctx.wrapbuf, 46, FirstDot + 1)

Region ==
    IF env.pos < FirstDot THEN "header"
    ELSE IF env.pos = FirstDot \/ env.pos = SecondDot THEN "separator"
    ELSE IF env.pos < SecondDot THEN "payload"
    ELSE "signature"

\* the last call was an unwrap, with flags f, of E with one byte changed
UnwrappedTampered(f) ==
    /\ res.op \in {"unwrap", "unwrap_anymech"}
    /\ env.tampered
    /\ env.pos > 0
    /\ res.input.s = env.s
    /\ res.flags = f

\* allowed-types does not stand in the way of the call
PolicyPasses == res.op = "unwrap_anymech" \/ EnvelopeAllowed

\* the header of the changed envelope no longer decodes to a bundle with
\* version 1, a registered mechanism and a userid
HeaderBroken ==
    LET hd == header_decode(env.s)
    IN  \/ ~hd.ok
        \/ ~kv_get(hd.header, "version", 105).ok
        \/ int64_ne(kv_get(hd.header, "version", 105), sign_version)
        \/ ~kv_get(hd.header, "mechanism", 115).ok
        \/ lookup_mech(kv_get(hd.header, "mechanism", 115).val) = "NULL"
        \/ ~kv_get(hd.header, "userid", 105).ok

\* what the payload region of the changed envelope decodes to
AlteredPayload == sodium_base642bin(SubSeq(env.s, FirstDot + 1, SecondDot - 1))

ThisCall ==
    [rc |-> res.r.rc, payload |-> res.r.payload, paynull |-> res.r.paynull,
     paysz |-> res.r.paysz, userid |-> res.r.userid, mech |-> res.r.mech,
     steps |-> res.r.steps, errno |-> ctx.errno, last_error |-> ctx.last_error]

\* the same call with the other of the two flag values, on the context as
\* it was before the call
OtherCall ==
    LET o == sign_unwrap([NewContext EXCEPT !.sign = res.pre.sign,
                                            !.unwrapbuf = res.pre.unwrapbuf],
                         cfg, down, res.input,
                         IF res.flags = 0 THEN FLUX_SIGN_NOVERIFY ELSE 0,
                         res.op = "unwrap")
    IN  [rc |-> o.rc, payload |-> o.payload, paynull |-> o.paynull,
         paysz |-> o.paysz, userid |-> o.userid,
         mech |-> IF res.op = "unwrap" THEN "" ELSE o.mech,
         steps |-> o.steps, errno |-> o.c.errno, last_error |-> o.c.last_error]

IsVerifyStep(x) == x \in {"mech_init", "mech_verify"}

\* v is the call with flags 0, u the call with NOVERIFY
SameChecks(v, u) ==
    /\ u.steps = SelectSeq(v.steps, LAMBDA x : ~IsVerifyStep(x))
    /\ (v.rc = -1 /\ ~IsVerifyStep(v.steps[Len(v.steps)])) => u = v
    /\ v.rc = 0 =>
           /\ u.rc = 0
           /\ u.payload = v.payload
           /\ u.paynull = v.paynull
           /\ u.paysz = v.paysz
           /\ u.userid = v.userid
           /\ u.mech = v.mech

\* C4: on the same input and context, unwrap with NOVERIFY runs the checks
\* of unwrap with flags 0 in the same order, less the mechanism's init and
\* verify: what fails before verification fails the same way, and what is
\* accepted with flags 0 is accepted with identical outputs.
C4_NoverifySameChecks ==
    (res.op \in {"unwrap", "unwrap_anymech"} /\ res.flags \in {0, FLUX_SIGN_NOVERIFY}) =>
        LET other == OtherCall
        IN  IF res.flags = 0 THEN SameChecks(ThisCall, other)
            ELSE SameChecks(other, ThisCall)

\* C4 witness: a changed munge envelope was accepted with NOVERIFY after
\* every check that flags 0 makes before verification, where flags 0 fails
\* in the mechanism's verify.
C4_Witness ==
    /\ UnwrappedTampered(FLUX_SIGN_NOVERIFY)
    /\ env.M = "munge"
    /\ res.r.rc = 0
    /\ LET other == OtherCall
       IN  other.rc = -1 /\ other.steps[Len(other.steps)] = "mech_verify"

(***************************************************************************)
(* Properties of sign-engine configuration and of the wrap arguments,      *)
(* checked under SpecSign.                                                 *)
(***************************************************************************)
\* the configured default-type and the names in allowed-types, read from
\* the table itself
DefaultType == cfg["default-type"].s

AllowedNames ==
    {cfg["allowed-types"].a[i].s : i \in 1..Len(cfg["allowed-types"].a)}

\* the last call was a wrap with no mechanism argument that returned the
\* envelope now held
WrappedByDefault == env.has /\ ~env.tampered /\ env.arg = "NULL"

\* C15 as stated: the envelope of a wrap with no mechanism argument names
\* default-type, and flux_sign_unwrap of it on the same context succeeds.
C15_DefaultUnwrapsAlways ==
    /\ WrappedByDefault => env.M = DefaultType
    /\ (WrappedByDefault /\ UnwrappedEnvelope(0) /\ res.op = "unwrap")
           => res.r.rc = 0

\* C15: the envelope of a wrap with no mechanism argument names
\* default-type (unwrap_anymech reads that name from its header), and
\* flux_sign_unwrap of it on the same context succeeds when default-type is
\* in allowed-types and, under munge and curve, the userid is the real uid
\* of the wrapping process.
C15_DefaultUnwraps ==
    /\ WrappedByDefault => env.M = DefaultType
    /\ (WrappedByDefault /\ UnwrappedEnvelope(0) /\ res.op = "unwrap_anymech"
        /\ res.r.rc = 0) => res.r.mech = DefaultType
    /\ (/\ WrappedByDefault
        /\ UnwrappedEnvelope(0)
        /\ res.op = "unwrap"
        /\ DefaultType \in AllowedNames
        /\ (DefaultType = "none" \/ env.U = uid)) => res.r.rc = 0

C15_Witness ==
    /\ WrappedByDefault
    /\ UnwrappedEnvelope(0)
    /\ res.op = "unwrap"
    /\ DefaultType = "munge"
    /\ res.r.rc = 0
    /\ res.r.userid = uid

\* what the claim calls a configuration that makes initialisation fail
BadMaxTtl == cfg["max-ttl"].n <= 0 /\ cfg["max-ttl"].n # -100

BadAllowedTypes ==
    \/ Len(cfg["allowed-types"].a) = 0
    \/ \E i \in 1..Len(cfg["allowed-types"].a) :
           \/ cfg["allowed-types"].a[i].type # "string"
           \/ ~(cfg["allowed-types"].a[i].s \in Mechs)

BadDefaultType == ~(DefaultType \in Mechs)

CompleteTable == DOMAIN cfg = {"max-ttl", "default-type", "allowed-types"}

\* the last call got as far as sign_init
ReachedInit == res.op # "none" /\ Len(res.r.steps) >= 2

\* C16: with max-ttl 0 or negative other than -100, or allowed-types empty
\* or holding a non-string or an unknown name, or default-type unknown, no
\* engine is ever attached and every call fails; with max-ttl -100 or
\* positive and the rest in order the first call that reaches sign_init
\* attaches the engine.
C16_InitFails ==
    CompleteTable =>
        /\ (BadMaxTtl \/ BadAllowedTypes \/ BadDefaultType)
               => /\ ~ctx.sign
                  /\ res.op # "none" => res.r.rc < 0
        /\ (~BadMaxTtl /\ ~BadAllowedTypes /\ ~BadDefaultType /\ ReachedInit)
               => ctx.sign

C16_Witness ==
    /\ CompleteTable
    /\ cfg["max-ttl"].n = -101
    /\ res.op = "wrap"
    /\ res.r.steps = <<"args", "sign_init">>
    /\ res.r.rc < 0
    /\ ctx.fresh
    /\ ctx.last_error.msg = "sign: max-ttl should be greater than zero"

\* C17 as stated: every failing wrap or unwrap call stores a message for
\* that failure in last_error.
C17_LastErrorReplaced ==
    (res.op # "none" /\ res.r.rc < 0) => ctx.fresh

\* the last call was a wrap that named a mechanism and got past the
\* argument check and sign_init
WrapNamed ==
    /\ res.op = "wrap"
    /\ res.a.mech_type # "NULL"
    /\ ctx.sign
    /\ Len(res.r.steps) >= 3

\* C19: a wrap naming none, munge or curve is not refused for the name,
\* whether or not allowed-types lists it; a wrap naming anything else fails
\* with EINVAL, last_error carries the name asked for, and the wrap buffer
\* and the caller's envelope stay as they were.
C19_WrapMechanism ==
    /\ [](WrapNamed =>
            /\ res.a.mech_type \in Mechs
                   => /\ Len(res.r.steps) > 3
                      /\ ~(ctx.fresh /\ ctx.last_error.msg
                                          = "sign-wrap: unknown mechanism: %s")
            /\ ~(res.a.mech_type \in Mechs)
                   => /\ res.r.rc = -1
                      /\ ctx.errno = "EINVAL"
                      /\ ctx.fresh
                      /\ ctx.last_error = [msg |-> "sign-wrap: unknown mechanism: %s",
                                           arg |-> res.a.mech_type])
    /\ [][(WrapNamed' /\ ~(res'.a.mech_type \in Mechs))
              => (ctx'.wrapbuf = ctx.wrapbuf /\ env' = env)]_vars

C19_Witness ==
    /\ WrapNamed
    /\ res.a.mech_type = "none"
    /\ ~("none" \in AllowedNames)
    /\ res.r.rc = 0
    /\ env.M = "none"

(***************************************************************************)
(* Properties of the header checks of sign_unwrap, checked under           *)
(* SpecTamper.                                                             *)
(***************************************************************************)
\* the last call was an unwrap, with flags f, of the envelope held, and the
\* header of that envelope decodes
UnwrappedHeader(f) ==
    /\ res.op \in {"unwrap", "unwrap_anymech"}
    /\ res.flags = f
    /\ res.input.s = env.s
    /\ header_decode(env.s).ok

\* the text of the header's int64 entry under key, <<>> if there is none
HeaderText(key) ==
    LET h == header_decode(env.s).header
        k == {i \in 1..Len(h) : h[i].key = StrBytes(key) /\ h[i].type = 105}
    IN  IF k = {} THEN <<>> ELSE h[CHOOSE i \in k : \A j \in k : i <= j].val

HeaderLacks ==
    \/ ~kv_get(header_decode(env.s).header, "version", 105).ok
    \/ ~kv_get(header_decode(env.s).header, "mechanism", 115).ok
    \/ ~kv_get(header_decode(env.s).header, "userid", 105).ok

\* the version entry is a number, and its text is not "1"
WrongVersion ==
    /\ kv_get(header_decode(env.s).header, "version", 105).ok
    /\ HeaderText("version") # <<49>>

\* C18 as stated: unwrap and unwrap_anymech, with flags 0 or NOVERIFY, fail
\* with EINVAL when the decoded header lacks version, mechanism or userid or
\* carries a version other than 1, and for a wrong version the message
\* holds the version the header carries.
C18_HeaderChecks ==
    \A f \in {0, FLUX_SIGN_NOVERIFY} :
        UnwrappedHeader(f) =>
            /\ (HeaderLacks \/ WrongVersion)
                   => res.r.rc = -1 /\ ctx.errno = "EINVAL"
            /\ WrongVersion
                   => /\ ctx.last_error.msg = "sign-unwrap: header version=%d unknown"
                      /\ DecText(ctx.last_error.arg) = HeaderText("version")

(***************************************************************************)
(* Properties of the exec pipeline, checked under SpecExec.                *)
(***************************************************************************)
\* what flux_sign_unwrap with flags 0 returns for the J on the channel
ChannelUnwrap ==
    flux_sign_unwrap(NewContext, cfg, down,
                     [null |-> FALSE, s |-> JString(chan.J)], 0)

\* the privileged half's own successful unwraps
PrivUnwrapped == {c \in obs.unwraps : c.by = "p" /\ c.call.rc = 0}

\* C5 as stated: two invocations whose bundles carry the same J and differ
\* in shell_path or args make the privileged half execute the same program
\* with the same argument vector as the same uid.
C5_SameProgram ==
    (prev.by = "s" /\ obs.exec.by = "s")
        => /\ obs.exec.shell = prev.shell
           /\ obs.exec.args = prev.args
           /\ obs.exec.uid = prev.uid

\* C5: for two received bundles with the same J the uid the shell runs as
\* is the same, namely the userid of the verified J; the program and the
\* argument vector are those of the received bundle, the program being one
\* of exec.allowed-shells.
C5_OnlyJTrusted ==
    /\ (prev.by = "s" /\ obs.exec.by = "s") => obs.exec.uid = prev.uid
    /\ obs.exec.by = "s"
           => /\ obs.exec.shell = chan.shell_path
              /\ obs.exec.args = chan.args
              /\ obs.exec.shell \in xcfg.allowed_shells
              /\ ChannelUnwrap.rc = 0
              /\ obs.exec.uid = ChannelUnwrap.userid

C5_Witness ==
    /\ prev.by = "s"
    /\ obs.exec.by = "s"
    /\ obs.exec.shell # prev.shell \/ obs.exec.args # prev.args
    /\ obs.exec.uid = prev.uid

\* C6: every unwrap of J made by either half is flux_sign_unwrap with flags
\* 0, and the uid the forked child switched to is the userid that
\* flux_sign_unwrap with flags 0 returns for the J received on the channel.
C6_UnwrapStrict ==
    /\ \A c \in obs.unwraps :
           c.call.fn = "flux_sign_unwrap" /\ c.call.flags = 0
    /\ obs.switched # -1
           => /\ ChannelUnwrap.rc = 0
              /\ ChannelUnwrap.userid = obs.switched

C6_Witness ==
    /\ obs.switched = 2
    /\ req.caller = 1
    /\ \E c \in obs.unwraps : c.by = "u"
    /\ \E c \in obs.unwraps : c.by = "p"

\* C7: a caller not listed in exec.allowed-users: no helper is spawned,
\* nothing is forked or exec'd, the unprivileged half sends no bundle, and
\* flux-imp exits with status 1.
C7_UserNotAllowed ==
    ~(req.caller \in xcfg.allowed_users)
        => /\ obs.helper = "none"
           /\ obs.forked = 0
           /\ obs.exec = NoExec
           /\ ~req.compromised => (obs.sent = 0 /\ chan = NoBundle)
           /\ Finished => ImpExit = 1

C7_Witness ==
    /\ ~(req.caller \in xcfg.allowed_users)
    /\ req.helper = "ok"
    /\ req.ps
    /\ Finished
    /\ obs.why.u = "exec: user %s not in allowed-users list"

\* C8 as stated: in every mode a request for a shell that is not listed in
\* exec.allowed-shells exits with status 1, no process forked, no exec.
C8_EveryMode ==
    (~req.compromised /\ ~(req.shell \in xcfg.allowed_shells))
        => /\ obs.helper = "none"
           /\ obs.forked = 0
           /\ obs.exec = NoExec
           /\ Finished => ImpExit = 1

\* C8: in privsep mode a request for a shell that is not listed in
\* exec.allowed-shells exits with status 1: the unprivileged half sends no
\* bundle, and the privileged half forks no shell process and exec's
\* nothing for a received bundle that names such a shell.
C8_ShellNotAllowed ==
    /\ (req.ps /\ ~req.compromised /\ ~(req.shell \in xcfg.allowed_shells))
           => /\ obs.sent = 0
              /\ obs.forked = 0
              /\ obs.exec = NoExec
              /\ Finished => ImpExit = 1
    /\ (req.ps /\ chan # NoBundle /\ ~(chan.shell_path \in xcfg.allowed_shells))
           => /\ obs.forked = 0
              /\ obs.exec = NoExec
              /\ Finished => ImpExit = 1

C8_Witness ==
    /\ req.ps
    /\ chan # NoBundle
    /\ chan.shell_path = "evil"
    /\ PrivUnwrapped # {}
    /\ obs.why.p = "exec: shell not in allowed-shells list"

\* C9 as stated: whenever an unwrap of J verified and returned userid 0, no
\* shell is executed and flux-imp exits with status 1.
C9_RootRejectedEveryMode ==
    (\E c \in obs.unwraps : c.call.rc = 0 /\ c.call.userid = 0)
        => /\ obs.exec = NoExec
           /\ Finished => ImpExit = 1

\* C9: in privsep mode, when the privileged half's unwrap of J verified and
\* returned userid 0, the privileged half has exited with status 1 for that
\* reason, having forked and exec'd nothing.
C9_RootRejected ==
    (\E c \in PrivUnwrapped : c.call.userid = 0)
        => /\ obs.forked = 0
           /\ obs.exec = NoExec
           /\ pc.p = "exited"
           /\ obs.exit.p = 1
           /\ obs.why.p = "exec: switching to user root not supported"

C9_Witness ==
    /\ \E c \in PrivUnwrapped : c.call.userid = 0
    /\ xcfg.allowed_shells = {"sh"}
    /\ chan.shell_path = "sh"
    /\ Finished
    /\ ImpExit = 1

\* C10 as stated: after execvp failed, flux-imp exits with 126 when errno
\* is EPERM or EACCES and with 127 for any other errno.
C10_ExecFailureStatus ==
    (Finished /\ obs.exec.by # "none" /\ obs.exec.errno # "0")
        => ImpExit = (IF obs.exec.errno \in {"EPERM", "EACCES"}
                      THEN 126 ELSE 127)

(***************************************************************************)
(* Properties of the privileged parent with its shell child, checked under *)
(* SpecShell and SpecGroup.                                                *)
(***************************************************************************)
\* C11: once the privileged parent has exited after forking the shell, its
\* exit status is the child's exit code, or 128 + N when the child was
\* terminated by signal N, or 1 for any other wait status.
C11_ExitStatus ==
    (obs.forked > 0 /\ pc.p = "exited")
        => obs.exit.p = (IF obs.status.kind = "exit" THEN obs.status.n
                         ELSE IF obs.status.kind = "signal"
                         THEN 128 + obs.status.n
                         ELSE 1)

C11_Witness ==
    /\ pc.p = "exited"
    /\ obs.status = [kind |-> "signal", n |-> 15]
    /\ obs.exit.p = 143

\* C12: a forwarded signal leaves the IMP's pending set only by a kill of
\* the shell child with that signal, no signal meets the default
\* disposition in the IMP, and every forwarded signal that is pending in
\* the IMP eventually leaves the pending set.
C12_SignalsForwarded ==
    /\ [][\A sig \in Forwarded :
              (sig \in obs.pending /\ ~(sig \in obs'.pending))
                  => obs'.kills = Append(obs.kills,
                                         [pid |-> ShellPid, sig |-> sig])]_vars
    /\ [](obs.defaulted = {})
    /\ \A sig \in Forwarded : (sig \in obs.pending) ~> ~(sig \in obs.pending)

C12_Witness ==
    /\ obs.arrived = <<"SIGCONT", "SIGTERM">>
    /\ obs.blocked = {"SIGUSR1"}
    /\ Len(obs.kills) = 2
    /\ \A i \in 1..2 : obs.kills[i].pid = ShellPid
    /\ obs.pending = {}

C14_CgroupDrained ==
    (xcfg.armed /\ obs.forked > 0 /\ pc.p = "exited") => obs.cgroup = {}

(***************************************************************************)
(* The sign test program (t/src/sign.c): it reads standard input into a    *)
(* fixed buffer, wraps what it read for the real uid under the default     *)
(* mechanism and prints the envelope.  Here req is the invocation          *)
(* [argc, size, confok] (size the number of bytes on standard input,       *)
(* confok whether the configuration files load), pc the position in main   *)
(* and obs the locals of main and read_all and what the process left.      *)
(***************************************************************************)
BufSize == 1024

\* the input sizes tried, and the most bytes one read () may hand over
InputSizes == {0, 1, 2, BufSize - 1, BufSize, BufSize + 1}

ReadSizes == {1, 512, BufSize}

\* byte i of standard input
StdinByte(i) == 97 + (i % 26)

Stdin(size) == SubSeq([i \in 1..size |-> StdinByte(i)], 1, size)

Min(a, b) == IF a < b THEN a ELSE b

NoCli == [count |-> 0, n |-> 0, buf |-> <<>>, exit |-> -1, msg |-> "", out |-> <<>>]

\* die (fmt, ...): exit (1)
die(o, msg) == [o EXCEPT !.exit = 1, !.msg = msg]

flux_sign_wrap(c, conf, dn, ruid, pay, paysz, mech_type, flags) ==
    flux_sign_wrap_as(c, conf, dn, ruid, ruid, pay, paysz, mech_type, flags)

\* one pass of the loop of read_all, read () having returned n >= 0 bytes
read_all_step(o, n) ==
    [o EXCEPT !.n = n,
              !.count = @ + n,
              !.buf = @ \o SubSeq([j \in 1..n |-> StdinByte(o.count + j)], 1, n)]

\* read_all after the pass that left o: loop again, die or return count
read_all_next(o) ==
    IF o.n > 0 /\ o.count < BufSize THEN [pc |-> "read", o |-> o]
    ELSE IF o.n > 0 THEN [pc |-> "exit", o |-> die(o, "input buffer exceeded")]
    ELSE [pc |-> "wrap", o |-> o]

CliIdle == xcfg = "none" /\ chan = "none" /\ prev = "none"

\* main up to the call of read_all
CliMain ==
    /\ pc = "main"
    /\ IF req.argc # 1
       THEN pc' = "exit" /\ obs' = die(obs, "Usage: sign <input >output")
       ELSE IF ~req.confok
       THEN pc' = "exit" /\ obs' = die(obs, "flux_security_configure: %s")
       ELSE pc' = "read" /\ obs' = obs
    /\ UNCHANGED <<cfg, uid, down, ctx, env, res, xcfg, req, chan, prev>>

\* read (STDIN_FILENO, buf + count, bufsz - count) returns at most k bytes
CliRead(k) ==
    /\ pc = "read"
    /\ pc' = read_all_next(read_all_step(obs,
                 Min(k, Min(req.size - obs.count, BufSize - obs.count)))).pc
    /\ obs' = read_all_next(read_all_step(obs,
                  Min(k, Min(req.size - obs.count, BufSize - obs.count)))).o
    /\ UNCHANGED <<cfg, uid, down, ctx, env, res, xcfg, req, chan, prev>>

\* read () returns -1
CliReadError ==
    /\ pc = "read"
    /\ pc' = "exit"
    /\ obs' = die([obs EXCEPT !.n = -1], "read stdin: %s")
    /\ UNCHANGED <<cfg, uid, down, ctx, env, res, xcfg, req, chan, prev>>

\* main after flux_sign_wrap returned r
CliWrapped(a, r) ==
    /\ ctx' = r.c
    /\ res' = [op |-> "wrap", a |-> a, r |-> Strip(r)]
    /\ env' = IF r.rc = 0
              THEN [has |-> TRUE, s |-> r.c.wrapbuf, U |-> uid, P |-> a.pay.bytes,
                    M |-> r.mech, arg |-> "NULL", tampered |-> FALSE, pos |-> 0]
              ELSE env
    /\ obs' = IF r.rc = 0
              THEN [obs EXCEPT !.exit = 0, !.out = r.c.wrapbuf \o <<10>>]
              ELSE die(obs, "flux_sign_wrap: %s")
    /\ pc' = "exit"
    /\ UNCHANGED <<cfg, uid, down, xcfg, req, chan, prev>>

CliWrap ==
    /\ pc = "wrap"
    /\ CliWrapped([userid |-> uid, pay |-> [null |-> FALSE, bytes |-> obs.buf],
                   paysz |-> obs.count, mech_type |-> "NULL", flags |-> 0],
                  flux_sign_wrap(Enter(ctx), cfg, down, uid,
                                 [null |-> FALSE, bytes |-> obs.buf], obs.count,
                                 "NULL", 0))

CliWorlds ==
    { [cfg |-> SignTable(30, "none", <<CfStr("none")>>), down |-> {}],
      [cfg |-> SignTable(30, "bogus", <<CfStr("none")>>), down |-> {}],
      [cfg |-> SignTable(30, "munge", <<CfStr("munge")>>), down |-> {"munge"}] }

CliRequests == [argc : {1, 2}, size : InputSizes, confok : BOOLEAN]

InitCli ==
    /\ \E w \in CliWorlds : cfg = w.cfg /\ down = w.down
    /\ uid = 1
    /\ ctx = NewContext
    /\ env = NoEnvelope
    /\ res = NoCall
    /\ CliIdle
    /\ req \in CliRequests
    /\ pc = "main"
    /\ obs = NoCli

NextCli ==
    \/ CliMain
    \/ \E k \in ReadSizes : CliRead(k)
    \/ CliReadError
    \/ CliWrap

SpecCli == InitCli /\ [][NextCli]_vars

(***************************************************************************)
(* Properties of the sign test program, checked under SpecCli.             *)
(***************************************************************************)
\* the payload region of the line written to standard output, decoded
SignedBytes ==
    sodium_base642bin(SubSeq(obs.out, strchr(obs.out, 46) + 1,
                             strchr_from(obs.out, 46, strchr(obs.out, 46) + 1) - 1)).bin

\* C20 as stated: invoked without arguments, the program exits 0 or 1; it
\* exits 1 only after a read error, on more than 1024 bytes of input, or
\* after a configuration or wrap failure, so every input of at most 1024
\* bytes is otherwise accepted; and on exit 0 the payload of the envelope
\* written is the whole of standard input.
C20_CliAccepts ==
    (pc = "exit" /\ req.argc = 1) =>
        /\ obs.exit \in {0, 1}
        /\ obs.exit = 1 =>
               \/ obs.msg \in {"read stdin: %s", "flux_security_configure: %s",
                               "flux_sign_wrap: %s"}
               \/ req.size > 1024
        /\ obs.exit = 0 =>
               /\ req.size <= 1024
               /\ res.a.pay.bytes = Stdin(req.size)
               /\ res.a.paysz = req.size
               /\ SignedBytes = Stdin(req.size)

(***************************************************************************)
(* Properties of the input, the channel and the order of steps of the exec *)
(* pipeline, checked under SpecExec.                                       *)
(***************************************************************************)
\* the unprivileged half ran the IMP's code and is past its input step, on
\* a command line that has its arguments
PastInput ==
    /\ ~req.compromised
    /\ xcfg.loads
    /\ imp_exec_user_allowed(xcfg, req.caller)
    /\ req.argc >= 4
    /\ ~(pc.u \in {"create", "input"})

\* C21 as stated: the input is read from the helper when
\* FLUX_IMP_EXEC_HELPER is set and not empty, and from stdin in every other
\* case, the empty string included.
C21_InputSourceStdinWhenEmpty ==
    PastInput =>
        /\ req.helper \in {"ok", "fail"} => obs.read = "helper"
        /\ req.helper \in {"unset", "empty"} => obs.read = "stdin"

\* C21: the input is read from the helper when FLUX_IMP_EXEC_HELPER is set
\* and not empty (if the helper can be started at all), and from stdin when
\* it is unset; when it is the empty string the IMP exits 1 and has read
\* nothing, sent nothing and run nothing.
C21_InputSource ==
    PastInput =>
        /\ req.helper \in {"ok", "fail"} => obs.read = "helper"
        /\ req.helper = "nopopen" => obs.read = "none"
        /\ req.helper = "unset" => obs.read = "stdin" /\ obs.helper = "none"
        /\ req.helper = "empty" =>
               /\ obs.read = "none"
               /\ obs.helper = "none"
               /\ pc.u = "exited"
               /\ obs.exit.u = 1
               /\ obs.why.u = "exec: FLUX_IMP_EXEC_HELPER is empty"
               /\ obs.sent = 0
               /\ obs.exec.by = "none"

C21_Witness ==
    /\ PastInput
    /\ req.helper = "empty"
    /\ obs.exit.u = 1
    /\ obs.read = "none"

\* C22: without a privileged parent, a shell is only ever run when
\* allow-unprivileged-exec is true, and then by the unprivileged IMP itself,
\* as the caller, with no fork and no user switch; when it is false or
\* absent the IMP exits 1 and has run nothing.
C22_UnprivilegedExec ==
    (~req.ps /\ ~req.compromised) =>
        /\ obs.exec.by # "none" =>
               /\ xcfg.allow_unpriv
               /\ obs.exec.by = "u"
               /\ obs.exec.uid = req.caller
               /\ obs.exec.shell = req.shell
               /\ obs.switched = -1
               /\ obs.forked = 0
        /\ (~xcfg.allow_unpriv /\ pc.u = "exited") =>
               /\ obs.exit.u = 1
               /\ obs.exec.by = "none"
        /\ (xcfg.allow_unpriv /\ pc.u = "shell") => obs.exec.by = "u"

C22_Witness ==
    /\ ~req.ps
    /\ ~xcfg.allow_unpriv
    /\ pc.u = "exited"
    /\ obs.why.u = "exec: IMP not installed setuid, operation disabled."
    /\ obs.exit.u = 1
    /\ obs.exec.by = "none"

\* the unprivileged half's own checks have passed
UnprivChecksPassed ==
    /\ req.caller \in xcfg.allowed_users
    /\ \E c \in obs.unwraps : c.by = "u" /\ c.call.rc = 0 /\ c.call.flags = 0
    /\ req.shell \in xcfg.allowed_shells

\* what the unprivileged half running the IMP's code puts on the channel:
\* at most one bundle, that of the request, after its three checks
OneBundleAfterChecks ==
    ~req.compromised =>
        /\ obs.sent <= 1
        /\ obs.sent = 1 =>
               /\ UnprivChecksPassed
               /\ chan = [J |-> req.J, shell_path |-> req.shell,
                          args |-> <<req.shell, req.arg>>]
        /\ obs.sent = 0 => chan = NoBundle

\* C23 as stated: one bundle after the checks, then an exit status from the
\* privileged side to the unprivileged side, and nothing else.
C23_BundleThenStatusBack ==
    /\ OneBundleAfterChecks
    /\ (~req.compromised /\ pc.p = "exited" /\ obs.sent = 1) =>
           obs.wire = <<[from |-> "u", msg |-> "bundle"],
                        [from |-> "p", msg |-> "status"]>>

\* C23: one bundle after the checks; the unprivileged side has then exited
\* with status 0, which the privileged side waits for; nothing is ever sent
\* from the privileged side, and nothing else is on the channel.
C23_OneBundle ==
    /\ OneBundleAfterChecks
    /\ ~req.compromised =>
           /\ Len(obs.wire) = obs.sent
           /\ \A i \in 1..Len(obs.wire) : obs.wire[i] = [from |-> "u", msg |-> "bundle"]
           /\ obs.sent = 1 => pc.u = "exited" /\ obs.exit.u = 0
           /\ (obs.forked > 0 \/ obs.pam # "none") => obs.sent = 1

C23_Witness ==
    /\ ~req.compromised
    /\ obs.sent = 1
    /\ pc.p = "exited"
    /\ obs.exec.by = "s"
    /\ obs.wire = <<[from |-> "u", msg |-> "bundle"]>>

C25_BlockedDuringConstruction ==
    (req.ps /\ pc.p \in {"create", "init", "wait", "pam", "fork"})
        => obs.blocked = Signals

\* the parent is between fork and the end of setup_signal_forwarding
InWindow == pc.p \in {"setup", "unblock"}

\* C26: between fork and the end of setup_signal_forwarding every signal is
\* blocked, a signal that arrives then stays pending and nothing is
\* forwarded yet; no forwarded signal ever meets the default disposition
\* once the child is forked; and a forwarded signal pending in that window
\* is handed to fwd_signal, which signals the child.
C26_BlockedUntilHandlers ==
    /\ [](InWindow => obs.blocked = Signals)
    /\ [](obs.forked > 0 => obs.defaulted \cap Forwarded = {})
    /\ [][InWindow => (obs.pending \subseteq obs'.pending /\ obs'.kills = obs.kills)]_vars
    /\ \A sig \in Forwarded :
           (InWindow /\ sig \in obs.pending)
               ~> (\E i \in 1..Len(obs.kills) :
                       obs.kills[i] = [pid |-> ShellPid, sig |-> sig])

C26_Witness ==
    /\ pc.p = "unblock"
    /\ obs.handled = Forwarded
    /\ obs.blocked = Signals
    /\ "SIGTERM" \in obs.pending
    /\ obs.kills = <<>>

(***************************************************************************)
(* Properties of the children of the IMP, checked under SpecExec.          *)
(***************************************************************************)
ChildSteps == <<"sigunblock_all", "imp_switch_user", "chdir", "execvp">>

\* C27: the forked child takes its steps in the order sigunblock_all,
\* imp_switch_user, chdir, execvp; when it calls execvp it has switched to
\* the user of the verified J, who is not root.
C27_ChildOrder ==
    /\ Len(obs.trace) <= Len(ChildSteps)
    /\ \A i \in 1..Len(obs.trace) : obs.trace[i] = ChildSteps[i]
    /\ obs.exec.by = "s" =>
           /\ obs.trace = ChildSteps
           /\ obs.switched = obs.target
           /\ obs.exec.uid = obs.target
           /\ obs.target \in Passwd \ {0}
           /\ \E c \in obs.unwraps :
                  c.by = "p" /\ c.call.rc = 0 /\ c.call.userid = obs.exec.uid

C27_Witness ==
    /\ obs.exec.by = "s"
    /\ obs.exec.errno = "0"
    /\ req.caller = 1
    /\ obs.exec.uid = 2
    /\ obs.trace = ChildSteps

\* C28 as stated: when a process of the IMP has exited, every child it
\* created has been waited for: the helper by the unprivileged half, the
\* shell by the privileged parent, whose exit status is then that of the
\* shell.
C28_ChildrenWaited ==
    /\ (~req.compromised /\ pc.u = "exited") => obs.helper # "spawned"
    /\ (pc.p = "exited" /\ obs.forked > 0) =>
           /\ pc.s = "exited"
           /\ obs.exit.p = wait_exit_status(obs.status)

(***************************************************************************)
(* cgroup_kill and cgroup_wait_for_empty (cgroup.c).  Here req is the      *)
(* cgroup_info and its surroundings [armed, failing] (armed is             *)
(* use_cgroup_kill, failing the pids for which kill () fails), obs.procs   *)
(* the pids cgroup.procs lists, in the order of the file, pc.p the         *)
(* position of the calling IMP and res what the last call did.             *)
(***************************************************************************)
\* getpid () of the calling IMP
ImpPid == 5

CgroupSigs == {0, 9, 15}

NoProbe == [probed |-> FALSE, n |-> 0]

NoCgroupCall ==
    [fn |-> "none", sig |-> 0, procs |-> <<>>, readable |-> TRUE,
     out |-> [n |-> 0, sent |-> <<>>]]

\* the loop body of a cgroup_kill that signals the caller too
cgroup_kill_pid_any(acc, pid, current_pid, failing, sig) ==
    IF pid \in failing
    THEN [acc EXCEPT !.rc = -1,
                     !.sent = Append(@, [pid |-> pid, sig |-> sig, rc |-> -1])]
    ELSE [acc EXCEPT !.count = @ + 1,
                     !.sent = Append(@, [pid |-> pid, sig |-> sig, rc |-> 0])]

\* the loop body of cgroup_kill for the pid fscanf read
cgroup_kill_pid(acc, pid, current_pid, failing, sig) ==
    IF pid = current_pid
    THEN acc
    ELSE IF pid \in failing
    THEN [acc EXCEPT !.rc = -1,
                     !.sent = Append(@, [pid |-> pid, sig |-> sig, rc |-> -1])]
    ELSE [acc EXCEPT !.count = @ + 1,
                     !.sent = Append(@, [pid |-> pid, sig |-> sig, rc |-> 0])]

RECURSIVE cgroup_kill_scan(_, _, _, _, _, _)
\* while (fscanf (fp, "%lu", &child) == 1), from entry i of the file
cgroup_kill_scan(acc, procs, i, current_pid, failing, sig) ==
    IF i > Len(procs)
    THEN acc
    ELSE cgroup_kill_scan(cgroup_kill_pid(acc, procs[i], current_pid, failing, sig),
                          procs, i + 1, current_pid, failing, sig)

\* the return of cgroup_kill after the loop
cgroup_kill_return(acc) ==
    [n |-> IF acc.rc < 0 /\ acc.count = 0 THEN -1 ELSE acc.count,
     sent |-> acc.sent]

\* cgroup_kill (cgroup, sig) by the process current_pid; readable is
\* whether fopen of cgroup.procs works
cgroup_kill(procs, readable, failing, sig, current_pid) ==
    IF ~readable
    THEN [n |-> -1, sent |-> <<>>]
    ELSE cgroup_kill_return(
             cgroup_kill_scan([count |-> 0, rc |-> 0, sent |-> <<>>],
                              procs, 1, current_pid, failing, sig))

\* the pids of the file other than the caller
OtherPids(procs) == {procs[i] : i \in 1..Len(procs)} \ {ImpPid}

\* a call of cgroup_kill (cgroup, sig) outside the wait
CgroupKill(sig, readable) ==
    /\ pc.p = "idle"
    /\ res' = [fn |-> "cgroup_kill", sig |-> sig, procs |-> obs.procs,
               readable |-> readable,
               out |-> cgroup_kill(obs.procs, readable, req.failing, sig, ImpPid)]
    /\ UNCHANGED <<cfg, uid, down, ctx, env, xcfg, req, pc, chan, obs, prev>>

\* cgroup_wait_for_empty is entered: it returns at once unless armed
CgroupWaitEnter ==
    /\ pc.p = "idle"
    /\ pc' = [pc EXCEPT !.p = IF req.armed THEN "probe" ELSE "returned"]
    /\ obs' = [obs EXCEPT !.last = NoProbe, !.nap = <<>>]
    /\ res' = [fn |-> "cgroup_wait_for_empty", sig |-> 0, procs |-> obs.procs,
               readable |-> TRUE, out |-> [n |-> 0, sent |-> <<>>]]
    /\ UNCHANGED <<cfg, uid, down, ctx, env, xcfg, req, chan, prev>>

\* the loop condition of cgroup_wait_for_empty with its probe
CgroupProbeStep(readable, out) ==
    /\ pc' = [pc EXCEPT !.p = IF out.n > 0 THEN "sleep" ELSE "returned"]
    /\ obs' = [obs EXCEPT !.last = [probed |-> TRUE, n |-> out.n]]
    /\ res' = [res EXCEPT !.procs = obs.procs, !.readable = readable,
                          !.out = out]

CgroupProbe(readable) ==
    /\ pc.p = "probe"
    /\ CgroupProbeStep(readable,
                       cgroup_kill(obs.procs, readable, req.failing, 0, ImpPid))
    /\ UNCHANGED <<cfg, uid, down, ctx, env, xcfg, req, chan, prev>>

\* the body of the loop: usleep (1e6), and usleep (2000) after EINTR
CgroupSleep(eintr) ==
    /\ pc.p = "sleep"
    /\ pc' = [pc EXCEPT !.p = "probe"]
    /\ obs' = [obs EXCEPT !.nap = IF eintr THEN <<1000000, 2000>>
                                  ELSE <<1000000>>]
    /\ UNCHANGED <<cfg, uid, down, ctx, env, res, xcfg, req, chan, prev>>

\* a process of the cgroup other than the IMP exits
CgroupProcExit(pid) ==
    /\ pid \in OtherPids(obs.procs)
    /\ obs' = [obs EXCEPT !.procs = SelectSeq(@, LAMBDA q : q # pid)]
    /\ UNCHANGED <<cfg, uid, down, ctx, env, res, xcfg, req, pc, chan, prev>>

\* the function returned to its caller
CgroupReturn ==
    /\ pc.p = "returned"
    /\ pc' = [pc EXCEPT !.p = "idle"]
    /\ UNCHANGED <<cfg, uid, down, ctx, env, res, xcfg, req, chan, obs, prev>>

\* the orders in which cgroup.procs can list the IMP and up to two others
CgroupFiles ==
    {f \in UNION {[1..n -> {ImpPid, ShellPid, DescendantPid}] : n \in 1..3} :
        /\ \E i \in 1..Len(f) : f[i] = ImpPid
        /\ \A i, j \in 1..Len(f) : f[i] = f[j] => i = j}

InitCgroup ==
    /\ cfg = SignTable(30, "none", <<CfStr("none"), CfStr("munge")>>)
    /\ down = {}
    /\ xcfg \in {c \in ShellConfigs : c.armed}
    /\ req \in [armed : BOOLEAN, failing : SUBSET {ShellPid, DescendantPid}]
    /\ uid = 0
    /\ ctx = NewContext
    /\ env = NoEnvelope
    /\ res = NoCgroupCall
    /\ pc = [u |-> "none", p |-> "idle", s |-> "none"]
    /\ chan = NoBundle
    /\ obs \in [procs : CgroupFiles, last : {NoProbe}, nap : {<<>>}]
    /\ prev = NoExec

NextCgroup ==
    \/ \E sig \in CgroupSigs, readable \in BOOLEAN : CgroupKill(sig, readable)
    \/ CgroupWaitEnter
    \/ \E readable \in BOOLEAN : CgroupProbe(readable)
    \/ \E eintr \in BOOLEAN : CgroupSleep(eintr)
    \/ \E pid \in {ShellPid, DescendantPid} : CgroupProcExit(pid)
    \/ CgroupReturn

SpecCgroup == InitCgroup /\ [][NextCgroup]_vars

\* the sends of the last cgroup_kill that worked, and those that failed
SentOk == {i \in 1..Len(res.out.sent) : res.out.sent[i].rc = 0}

SentFailed == {i \in 1..Len(res.out.sent) : res.out.sent[i].rc < 0}

\* C29: a cgroup_kill (sig) that could open cgroup.procs sent sig, in the
\* order of the file, to every pid listed there but the caller's own, and
\* to nothing else; it returns the number of sends that worked, or -1 when
\* none worked and at least one failed; when cgroup.procs could not be
\* opened it sent nothing and returns -1.
C29_CgroupKill ==
    res.fn = "cgroup_kill" =>
        /\ \A i \in 1..Len(res.out.sent) :
               res.out.sent[i].pid # ImpPid /\ res.out.sent[i].sig = res.sig
        /\ res.readable =>
               /\ [i \in 1..Len(res.out.sent) |-> res.out.sent[i].pid]
                      = SelectSeq(res.procs, LAMBDA q : q # ImpPid)
               /\ \A i \in 1..Len(res.out.sent) :
                      res.out.sent[i].rc < 0 <=> res.out.sent[i].pid \in req.failing
               /\ res.out.n = (IF SentOk = {} /\ SentFailed # {} THEN -1
                               ELSE Cardinality(SentOk))
        /\ ~res.readable => res.out = [n |-> -1, sent |-> <<>>]
        /\ res.out.n = -1 <=>
               (~res.readable \/ (SentOk = {} /\ SentFailed # {}))

C29_Witness ==
    /\ res.fn = "cgroup_kill" /\ res.sig = 15 /\ res.readable
    /\ res.procs = <<ShellPid, ImpPid, DescendantPid>>
    /\ req.failing = {ShellPid}
    /\ res.out.n = 1
    /\ Len(res.out.sent) = 2

\* C30 as stated: an armed cgroup_wait_for_empty has returned only after a
\* probe with signal 0 reported zero pids, the cgroup then holding no pid
\* but the caller's; one that is not armed has returned without a probe.
C30_WaitForEmpty ==
    (res.fn = "cgroup_wait_for_empty" /\ pc.p = "returned") =>
        IF req.armed
        THEN /\ obs.last = [probed |-> TRUE, n |-> 0]
             /\ OtherPids(obs.procs) = {}
        ELSE obs.last = NoProbe

(***************************************************************************)
(* cgroup_info_create (cgroup.c): discovery of the cgroup mount point and  *)
(* hierarchy type with statfs, and of the cgroup path from                 *)
(* /proc/self/cgroup.  Here req is the system [fs, readable, lines] (fs    *)
(* what statfs reports for the three directories, lines the lines of       *)
(* /proc/self/cgroup without their newline, as bytes), obs the struct      *)
(* cgroup_info, pc.p the position in cgroup_info_create and res the last   *)
(* call with its return value.                                             *)
(***************************************************************************)
\* sizeof (cgroup->path)
PATH_MAX == 4096

\* "/sys/fs/cgroup"
SysFsCgroup == <<47, 115, 121, 115, 47, 102, 115, 47, 99, 103, 114, 111, 117, 112>>

\* "/sys/fs/cgroup/unified"
SysFsCgroupUnified == 
    <<47, 115, 121, 115, 47, 102, 115, 47, 99, 103, 114, 111, 117, 112, 47, 117, 110, 105, 102, 105, 101, 100>>

\* "/sys/fs/cgroup/systemd"
SysFsCgroupSystemd == 
    <<47, 115, 121, 115, 47, 102, 115, 47, 99, 103, 114, 111, 117, 112, 47, 115, 121, 115, 116, 101, 109, 100>>

\* what statfs gives for a directory: ENOENT for a failure, else f_type
FsTypes ==
    {"ENOENT", "CGROUP2_SUPER_MAGIC", "TMPFS_MAGIC", "CGROUP_SUPER_MAGIC",
     "EXT4_SUPER_MAGIC"}

\* calloc (1, sizeof (*cgroup))
NoCgroupInfo ==
    [mount_dir |-> <<>>, path |-> <<>>, unified |-> FALSE,
     use_cgroup_kill |-> FALSE]

\* the last part of cgroup_init_mount_dir_and_type: f_type is fs.f_type as
\* the last statfs call that worked left it
cgroup_init_legacy(cg, f_type, fs) ==
    IF f_type = "TMPFS_MAGIC"
    THEN IF fs.systemd = "CGROUP_SUPER_MAGIC"
         THEN [rc |-> 0, cg |-> [cg EXCEPT !.mount_dir = SysFsCgroupSystemd,
                                           !.unified = FALSE]]
         ELSE [rc |-> -1, cg |-> [cg EXCEPT !.mount_dir = SysFsCgroupSystemd]]
    ELSE [rc |-> -1, cg |-> cg]

\* cgroup_init_mount_dir_and_type from the second statfs on: struct statfs
\* fs holds the result for /sys/fs/cgroup/unified from here
cgroup_init_unified(cg, fs) ==
    IF fs.unified = "ENOENT" THEN [rc |-> -1, cg |-> cg]
    ELSE IF fs.unified = "CGROUP2_SUPER_MAGIC" THEN [rc |-> 0, cg |-> cg]
    ELSE cgroup_init_legacy(cg, fs.unified, fs)

cgroup_init_mount_dir_and_type(cg, fs) ==
    IF fs.root = "ENOENT"
    THEN [rc |-> -1, cg |-> [cg EXCEPT !.unified = TRUE,
                                       !.mount_dir = SysFsCgroup]]
    ELSE IF fs.root = "CGROUP2_SUPER_MAGIC"
    THEN [rc |-> 0, cg |-> [cg EXCEPT !.unified = TRUE,
                                      !.mount_dir = SysFsCgroup]]
    ELSE cgroup_init_unified([cg EXCEPT !.unified = TRUE,
                                        !.mount_dir = SysFsCgroupUnified], fs)

RECURSIVE remove_leading_dotdot(_)
\* while (strncmp (relpath, "/..", 3) == 0) relpath += 3
remove_leading_dotdot(relpath) ==
    IF Len(relpath) >= 3 /\ SubSeq(relpath, 1, 3) = <<47, 46, 46>>
    THEN remove_leading_dotdot(SubSeq(relpath, 4, Len(relpath)))
    ELSE relpath

\* "name=systemd"
NameSystemd == <<110, 97, 109, 101, 61, 115, 121, 115, 116, 101, 109, 100>>

\* snprintf (cgroup->path, len, "%s%s", cgroup->mount_dir, relpath) < len
cgroup_path_print(cg, text) ==
    IF Len(text) < PATH_MAX
    THEN [rc |-> 0, cg |-> [cg EXCEPT !.path = text]]
    ELSE [rc |-> -1, cg |-> [cg EXCEPT !.path = SubSeq(text, 1, PATH_MAX - 1)]]

\* the test of a line with its two fields: stop at subsys "" when unified,
\* at subsys "name=systemd" when not
cgroup_line_selected(cg, subsys) ==
    \/ cg.unified /\ subsys = <<>>
    \/ ~cg.unified /\ subsys = NameSystemd

RECURSIVE cgroup_path_scan(_, _, _)
\* a line with first colon at c1 and the next colon at c2
cgroup_path_line(cg, lines, i, c1, c2) ==
    IF cgroup_line_selected(cg, SubSeq(lines[i], c1 + 1, c2 - 1))
    THEN cgroup_path_print(
             cg,
             cg.mount_dir
                 \o remove_leading_dotdot(SubSeq(lines[i], c2 + 1, Len(lines[i]))))
    ELSE cgroup_path_scan(cg, lines, i + 1)

\* a line with first colon at c1 (0 for none)
cgroup_path_colon(cg, lines, i, c1) ==
    IF c1 = 0 \/ c1 = Len(lines[i]) \/ strchr_from(lines[i], 58, c1 + 1) = 0
    THEN cgroup_path_scan(cg, lines, i + 1)
    ELSE cgroup_path_line(cg, lines, i, c1, strchr_from(lines[i], 58, c1 + 1))

\* while ((n = getline (&line, &size, fp)) >= 0), from line i
cgroup_path_scan(cg, lines, i) ==
    IF i > Len(lines)
    THEN [rc |-> -1, cg |-> cg]
    ELSE cgroup_path_colon(cg, lines, i, strchr(lines[i], 58))

\* cgroup_init_path; readable is whether fopen of /proc/self/cgroup works
cgroup_init_path(cg, readable, lines) ==
    IF ~readable THEN [rc |-> -1, cg |-> cg]
    ELSE cgroup_path_scan(cg, lines, 1)

\* GNU basename: what follows the last '/'
basename(path) ==
    IF \A i \in 1..Len(path) : path[i] # 47 THEN path
    ELSE SubSeq(path,
                1 + CHOOSE i \in 1..Len(path) :
                        path[i] = 47 /\ \A j \in (i + 1)..Len(path) : path[j] # 47,
                Len(path))

\* "imp-shell"
ImpShell == <<105, 109, 112, 45, 115, 104, 101, 108, 108>>

\* strncmp (basename (cgroup->path), "imp-shell", 9) == 0
cgroup_use_kill(cg) ==
    [cg EXCEPT !.use_cgroup_kill =
         Len(basename(cg.path)) >= 9 /\ SubSeq(basename(cg.path), 1, 9) = ImpShell]

NotCalled == [rc |-> 1, cg |-> NoCgroupInfo]

\* cgroup_info_create after its two calls, m and p what they returned
cgroup_info_created(m, p) ==
    [fn |-> "cgroup_info_create", mount |-> m, path |-> p,
     cgroup |-> IF m.rc < 0 \/ p.rc < 0 THEN NoCgroupInfo ELSE cgroup_use_kill(p.cg),
     null |-> m.rc < 0 \/ p.rc < 0]

cgroup_info_mounted(m, readable, lines) ==
    IF m.rc < 0
    THEN cgroup_info_created(m, NotCalled)
    ELSE cgroup_info_created(m, cgroup_init_path(m.cg, readable, lines))

\* cgroup_info_create; mem is whether calloc works
cgroup_info_create(mem, fs, readable, lines) ==
    IF ~mem
    THEN [fn |-> "cgroup_info_create", mount |-> NotCalled, path |-> NotCalled,
          cgroup |-> NoCgroupInfo, null |-> TRUE]
    ELSE cgroup_info_mounted(cgroup_init_mount_dir_and_type(NoCgroupInfo, fs),
                             readable, lines)

CgroupInfoCreate(mem) ==
    /\ pc.p = "idle"
    /\ res' = cgroup_info_create(mem, req.fs, req.readable, req.lines)
    /\ obs' = res'.cgroup
    /\ pc' = [pc EXCEPT !.p = IF res'.null THEN "null" ELSE "created"]
    /\ UNCHANGED <<cfg, uid, down, ctx, env, xcfg, req, chan, prev>>

\* cgroup_info_destroy
CgroupInfoDestroy ==
    /\ pc.p = "created"
    /\ obs' = NoCgroupInfo
    /\ pc' = [pc EXCEPT !.p = "destroyed"]
    /\ UNCHANGED <<cfg, uid, down, ctx, env, res, xcfg, req, chan, prev>>

\* a relpath of n bytes
LongRelpath(n) == <<47>> \o [i \in 1..(n - 1) |-> 97]

\* relpaths of /proc/self/cgroup lines
Relpaths ==
    {<<47, 105, 109, 112, 45, 115, 104, 101, 108, 108, 45, 49>>,
     <<47, 46, 46, 47, 46, 46, 47, 105, 109, 112, 45, 115, 104, 101, 108, 108, 45, 49>>,
     <<47, 46, 46, 120, 47, 105, 109, 112, 45, 115, 104, 101, 108, 108, 45, 49>>,
     <<47, 117, 115, 101, 114, 46, 115, 108, 105, 99, 101, 47, 106, 111, 98>>,
     <<47, 46, 46>>,
     <<47, 46, 46, 46>>,
     <<47>>}

\* lines of /proc/self/cgroup: "0::relpath", "1:name=systemd:relpath", and
\* lines of other controllers or of no such form
ProcLines ==
    {<<48, 58, 58>> \o r : r \in Relpaths}
        \cup {<<49, 58, 110, 97, 109, 101, 61, 115, 121, 115, 116, 101, 109, 100, 58>> \o r : r \in Relpaths}
        \cup {<<49, 50, 58, 99, 112, 117, 44, 99, 112, 117, 97, 99, 99, 116, 58, 47, 111, 116, 104, 101, 114>>,
              <<49, 58, 110, 97, 109, 101, 61, 115, 121, 115, 116, 101, 109, 100, 120, 58, 47, 105, 109, 112, 45, 115, 104, 101, 108, 108, 45, 50>>,
              <<103, 97, 114, 98, 97, 103, 101>>, <<53, 58>>, <<53, 58, 120>>,
              <<58, 58, 58, 47, 105, 109, 112, 45, 115, 104, 101, 108, 108, 45, 51>>}

\* lines whose path fills the buffer of cgroup->path to the last byte, or
\* is one byte too long for it, with mount dir /sys/fs/cgroup
LongLines ==
    {<<48, 58, 58>> \o LongRelpath(PATH_MAX - 1 - Len(SysFsCgroup)),
     <<48, 58, 58>> \o LongRelpath(PATH_MAX - Len(SysFsCgroup))}

ProcFiles ==
    {<<>>} \cup {<<l>> : l \in ProcLines \cup LongLines}
           \cup {<<k, l>> : k, l \in ProcLines}

InitDiscover ==
    /\ cfg = SignTable(30, "none", <<CfStr("none"), CfStr("munge")>>)
    /\ down = {}
    /\ xcfg \in {c \in ShellConfigs : c.armed}
    /\ req \in {r \in [fs : [root : FsTypes, unified : FsTypes, systemd : FsTypes],
                        readable : BOOLEAN, lines : ProcFiles] :
                    /\ ~r.readable => r.lines = <<>>
                    /\ r.fs.root = "ENOENT"
                           => r.fs.unified = "ENOENT" /\ r.fs.systemd = "ENOENT"}
    /\ uid = 0
    /\ ctx = NewContext
    /\ env = NoEnvelope
    /\ res = [fn |-> "none", mount |-> NotCalled, path |-> NotCalled,
              cgroup |-> NoCgroupInfo, null |-> TRUE]
    /\ pc = [u |-> "none", p |-> "idle", s |-> "none"]
    /\ chan = NoBundle
    /\ obs = NoCgroupInfo
    /\ prev = NoExec

NextDiscover ==
    \/ \E mem \in BOOLEAN : CgroupInfoCreate(mem)
    \/ CgroupInfoDestroy

SpecDiscover == InitDiscover /\ [][NextDiscover]_vars

\* the result of discovery in the order of the four cases
DiscoveryExpected(fs) ==
    IF fs.root = "CGROUP2_SUPER_MAGIC"
    THEN [rc |-> 0, mount_dir |-> SysFsCgroup, unified |-> TRUE]
    ELSE IF fs.unified = "CGROUP2_SUPER_MAGIC"
    THEN [rc |-> 0, mount_dir |-> SysFsCgroupUnified, unified |-> TRUE]
    ELSE IF fs.root = "TMPFS_MAGIC" /\ fs.systemd = "CGROUP_SUPER_MAGIC"
    THEN [rc |-> 0, mount_dir |-> SysFsCgroupSystemd, unified |-> FALSE]
    ELSE [rc |-> -1, mount_dir |-> <<>>, unified |-> FALSE]

MountCalled == res.fn = "cgroup_info_create" /\ res.mount # NotCalled

\* C31 as stated: discovery succeeds exactly in the first three cases, in
\* this order, with the mount dir and the unified flag of the case (the
\* legacy case whatever statfs says of /sys/fs/cgroup/unified), and fails
\* otherwise; on success unified is false exactly for /sys/fs/cgroup/systemd.
C31_Discovery ==
    MountCalled =>
        /\ res.mount.rc = DiscoveryExpected(req.fs).rc
        /\ res.mount.rc = 0 =>
               /\ res.mount.cg.mount_dir = DiscoveryExpected(req.fs).mount_dir
               /\ res.mount.cg.unified = DiscoveryExpected(req.fs).unified
               /\ ~res.mount.cg.unified
                      <=> res.mount.cg.mount_dir = SysFsCgroupSystemd

\* the colons of a line, and its fields when it has the form
\* hierarchy:subsys:relpath
Colons(l) == {i \in 1..Len(l) : l[i] = 58}

FirstColon(l) == CHOOSE i \in Colons(l) : \A j \in Colons(l) : i <= j

NextColon(l) ==
    CHOOSE i \in Colons(l) \ {FirstColon(l)} :
        \A j \in Colons(l) \ {FirstColon(l)} : i <= j

HasForm(l) == Cardinality(Colons(l)) >= 2

SubsysOf(l) == SubSeq(l, FirstColon(l) + 1, NextColon(l) - 1)

RelpathOf(l) == SubSeq(l, NextColon(l) + 1, Len(l))

RECURSIVE WithoutDotDotSegments(_)
\* a relpath without its leading path segments "/.."
WithoutDotDotSegments(r) ==
    IF /\ Len(r) >= 3
       /\ SubSeq(r, 1, 3) = <<47, 46, 46>>
       /\ (Len(r) = 3 \/ r[4] = 47)
    THEN WithoutDotDotSegments(SubSeq(r, 4, Len(r)))
    ELSE r

\* the lines the hierarchy type selects
Matching(lines, unified) ==
    {i \in 1..Len(lines) :
        /\ HasForm(lines[i])
        /\ SubsysOf(lines[i]) = (IF unified THEN <<>> ELSE NameSystemd)}

FirstMatching(lines, unified) ==
    CHOOSE i \in Matching(lines, unified) :
        \A j \in Matching(lines, unified) : i <= j

\* the path the first matching line gives under a mount dir
ResolvedPath(cg, lines) ==
    cg.mount_dir
        \o WithoutDotDotSegments(RelpathOf(lines[FirstMatching(lines, cg.unified)]))

PathCalled == res.fn = "cgroup_info_create" /\ res.path # NotCalled

\* C32 as stated: path resolution fails when no line of /proc/self/cgroup
\* has the subsys of the hierarchy type or when the mount dir followed by
\* the relpath of the first such line, without its leading /.. segments,
\* does not fit the path buffer; otherwise it succeeds with that path.
C32_PathResolution ==
    PathCalled =>
        IF \/ ~req.readable
           \/ Matching(req.lines, res.mount.cg.unified) = {}
           \/ Len(ResolvedPath(res.mount.cg, req.lines)) >= PATH_MAX
        THEN res.path.rc = -1
        ELSE /\ res.path.rc = 0
             /\ res.path.cg.path = ResolvedPath(res.mount.cg, req.lines)

\* the [sign] table passes the validation of sign_create
ValidSignConfig ==
    CompleteTable /\ ~BadMaxTtl /\ ~BadAllowedTypes /\ ~BadDefaultType

\* C33: over the calls on one context the engine, once attached, stays
\* attached; it is attached by the first call that passes argument
\* checking, and only with a configuration that passes validation; a call
\* that fails argument checking leaves the context's engine as it was; and
\* with a configuration that fails validation no call attaches an engine,
\* every call that passes argument checking failing in sign_init.
C33_OneEngine ==
    [][/\ ctx.sign => ctx'.sign
       /\ (~ctx.sign /\ ctx'.sign) => (ReachedInit' /\ ValidSignConfig)
       /\ (ReachedInit' /\ ValidSignConfig) => ctx'.sign
       /\ ~ReachedInit' => ctx'.sign = ctx.sign
       /\ ~ValidSignConfig
              => /\ ~ctx'.sign
                 /\ ReachedInit'
                        => /\ res'.r.rc < 0
                           /\ res'.r.steps = <<"args", "sign_init">>]_vars

\* an unwrap that found the engine of an earlier call and used it
C33_Witness ==
    /\ res.op = "unwrap"
    /\ res.pre.sign
    /\ ctx.sign
    /\ res.r.rc = 0
    /\ env.has

\* C34 as stated: once waitpid has returned the shell child, the parent
\* sends no signal any more: between the reaping and the parent's exit
\* nothing is added to the kill calls it made.
C34_NoKillAfterReap ==
    [][pc.p = "finish" => obs'.kills = obs.kills]_vars

\* C35 as stated: a privileged parent that opened a PAM session has closed
\* it when it has exited, whatever the path by which it left.
C35_PamClosed ==
    pc.p = "exited" => obs.pam # "open"

\* the last call was flux_sign_unwrap, past its argument checks, of an
\* input whose header decodes and names a mechanism that allowed-types
\* does not hold
UnwrappedDisallowed ==
    /\ res.op = "unwrap"
    /\ ~res.input.null
    /\ res.flags \in {0, FLUX_SIGN_NOVERIFY}
    /\ CompleteTable
    /\ header_decode(res.input.s).ok
    /\ kv_get(header_decode(res.input.s).header, "mechanism", 115).ok
    /\ ~(kv_get(header_decode(res.input.s).header, "mechanism", 115).val
             \in {StrBytes(n) : n \in AllowedNames})

\* C36: flux_sign_unwrap of an envelope whose mechanism is absent from
\* allowed-types fails without a payload decoding step and without the
\* init or verify hook of any mechanism, and leaves the unwrap buffer as
\* it was before the call.
C36_DisallowedUntouched ==
    UnwrappedDisallowed =>
        /\ res.r.rc = -1
        /\ \A i \in 1..Len(res.r.steps) :
               ~(res.r.steps[i] \in {"payload_decode", "mech_init", "mech_verify"})
        /\ ctx.unwrapbuf = res.pre.unwrapbuf

\* a none envelope refused under allowed-types [curve], the unwrap buffer
\* holding the payload of an earlier unwrap_anymech
C36_Witness ==
    /\ UnwrappedDisallowed
    /\ env.M = "none"
    /\ AllowedNames = {"curve"}
    /\ res.r.steps[Len(res.r.steps)] = "mech_allowed"
    /\ ctx.last_error.msg = "sign-unwrap: header mechanism=%s not allowed"
    /\ ctx.unwrapbuf # <<>>

====
